---- MODULE Spec2Model ----
(***************************************************************************)
(* A model of type_cellar's deterministic key derivation (deduping.py) and *)
(* of its round-trip validated names (wrappers.py).                        *)
(*                                                                         *)
(* Python strings and byte strings are sequences of one-character strings: *)
(* "a:b" is <<"a", ":", "b">>.  A SHA-256 hex digest is a one-element      *)
(* sequence whose element spells the hashed input, so that the digest is   *)
(* collision free and holds none of the characters the code splits on.     *)
(***************************************************************************)
EXTENDS Integers, Sequences, FiniteSets, TLC

VARIABLES
    k1, in1,    \* a dedupe key and the keyword arguments it was constructed from
    k2, in2,    \* a second dedupe key and its keyword arguments
    wire,       \* the destructured k1
    parsed,     \* the outcome of the dedupe structure hook
    now,        \* the UTC clock, in seconds
    call,       \* the arguments of the last construction of a stamped name
    inst,       \* the instance that construction returned, if it returned
    raised,     \* the error that construction raised, if it raised
    invoked,    \* the strategy methods invoked on the name so far, in order
    read,       \* the reads of stamped / unstamped made on the instance
    cleaned,    \* the last direct call of UtcVersionStampedTableName.unstamp
    registry,   \* the hook registrations made on the converter, in order
    made,       \* the number of objects made so far
    held,       \* the sentinel instances the program has made
    op,         \* the last operation of the converter and its outcome
    ser,        \* the last serialize_attributes call and its outcome
    lookup,     \* the hooks resolved after a conversion
    dumped      \* the last unstructure of an attrs instance and its outcome

dedupeVars == <<k1, in1, k2, in2, wire, parsed>>
stampVars == <<now, call, inst, raised, invoked, read, cleaned>>
convVars == <<registry, made, held, op, ser, lookup, dumped>>
vars ==
    <<k1, in1, k2, in2, wire, parsed, now, call, inst, raised, invoked,
      read, cleaned, registry, made, held, op, ser, lookup, dumped>>

\* Longest natural key drawn as an input.
MaxKeyLen == 2
\* Most keyword arguments given to one constructor call.
MaxArgs == 3
\* Longest table name drawn from the alphabet of letters, digits and "_".
MaxNameLen == 2
\* Seconds the clock may advance.
MaxClock == 1

----------------------------------------------------------------------------
\* Strings

Last(s) == s[Len(s)]

RECURSIVE Flatten(_)
\* The characters of s joined into one token.
Flatten(s) == IF s = <<>> THEN "" ELSE Head(s) \o Flatten(Tail(s))

\* Index of the first c in s, 0 when there is none (str.find + 1).
IndexOf(s, c) ==
    IF \E i \in 1..Len(s) : s[i] = c
    THEN CHOOSE i \in 1..Len(s) : s[i] = c /\ \A j \in 1..(i - 1) : s[j] # c
    ELSE 0

\* s.split(c, 1): at most one split, at the first c.
SplitOnce(s, c) ==
    LET i == IndexOf(s, c)
    IN  IF i = 0 THEN <<s>>
        ELSE <<SubSeq(s, 1, i - 1), SubSeq(s, i + 1, Len(s))>>

RECURSIVE Split(_, _)
\* s.split(c): split at every c.
Split(s, c) ==
    LET i == IndexOf(s, c)
    IN  IF i = 0 THEN <<s>>
        ELSE <<SubSeq(s, 1, i - 1)>> \o Split(SubSeq(s, i + 1, Len(s)), c)

RECURSIVE Join(_, _)
\* c.join(parts)
Join(parts, c) ==
    IF parts = <<>> THEN <<>>
    ELSE IF Len(parts) = 1 THEN parts[1]
    ELSE parts[1] \o <<c>> \o Join(Tail(parts), c)

\* s.removesuffix(suffix)
RemoveSuffix(s, suffix) ==
    IF /\ suffix # <<>> /\ Len(s) >= Len(suffix)
       /\ SubSeq(s, Len(s) - Len(suffix) + 1, Len(s)) = suffix
    THEN SubSeq(s, 1, Len(s) - Len(suffix))
    ELSE s

Digits == {"0", "1", "2", "3", "4", "5", "6", "7", "8", "9"}
DigitOf(n) == <<"0", "1", "2", "3", "4", "5", "6", "7", "8", "9">>[n + 1]

RECURSIVE StringsUpTo(_, _)
\* Every string over alphabet of length at most n.
StringsUpTo(alphabet, n) ==
    IF n = 0 THEN {<<>>}
    ELSE LET shorter == StringsUpTo(alphabet, n - 1)
         IN  shorter \cup {Append(s, c) : s \in shorter, c \in alphabet}

----------------------------------------------------------------------------
\* deduping.py

DedupeKinds == {"DedupeKey", "AlertKey"}

prefix(cls) ==
    IF cls = "DedupeKey" THEN <<"d", "e", "d", "u", "p", "e">>
    ELSE <<"a", "l", "e", "r", "t">>

\* hashlib.sha256(b).hexdigest()
hash_bytes(b) == <<"sha256(" \o Flatten(b) \o ")">>

\* A keyword-argument dict: a sequence of <<name, value>> in insertion order.
HasKey(kwargs, name) == \E i \in 1..Len(kwargs) : kwargs[i][1] = name
ValueOf(kwargs, name) ==
    kwargs[CHOOSE i \in 1..Len(kwargs) : kwargs[i][1] = name][2]
\* kwargs.pop(name, None): the dict without that entry.
Pop(kwargs, name) == SelectSeq(kwargs, LAMBDA kv : kv[1] # name)

\* Python's order of the key strings that occur in a salient record.
KeyRank(name) ==
    CASE name = "data" -> 1
      [] name = "natural_key" -> 2
      [] name = "payload_hash" -> 3
      [] name = "request_id" -> 4
      [] name = "trace_id" -> 5

RECURSIVE SortByKey(_)
\* The items of a dict by ascending key (json.dumps sort_keys=True).
SortByKey(items) ==
    IF items = <<>> THEN <<>>
    ELSE LET m == CHOOSE i \in 1..Len(items) :
                    \A j \in 1..Len(items) :
                        KeyRank(items[i][1]) <= KeyRank(items[j][1])
             rest == [j \in 1..(Len(items) - 1) |->
                        IF j < m THEN items[j] ELSE items[j + 1]]
         IN  <<items[m]>> \o SortByKey(rest)

RECURSIVE JsonItems(_)
JsonItems(items) ==
    IF items = <<>> THEN <<>>
    ELSE <<"\"", items[1][1], "\"", ":", " ", "\"">> \o items[1][2] \o <<"\"">>
         \o (IF Len(items) = 1 THEN <<>> ELSE <<",", " ">>)
         \o JsonItems(Tail(items))

\* json.dumps without sort_keys: the items in insertion order.
JsonDumpsUnsorted(salient) == <<"{">> \o JsonItems(salient) \o <<"}">>

\* json.dumps(salient, sort_keys=True).encode()
JsonDumpsSorted(salient) == <<"{">> \o JsonItems(SortByKey(salient)) \o <<"}">>

\* DedupeKeyMeta.underlying
underlying(s) == Last(SplitOnce(s, ":"))

NoKey == [cls |-> "None", key |-> <<>>]

\* The record hashed when no non-empty natural key is given.
Salient(kwargs) ==
    IF HasKey(kwargs, "data") /\ ValueOf(kwargs, "data") # <<>>
    THEN <<<<"payload_hash", hash_bytes(ValueOf(kwargs, "data"))>>>>
         \o Pop(kwargs, "data")
    ELSE Pop(kwargs, "data")

\* __init__ with the natural key used only when no data is given.
DedupeKeyMeta_init_data_first(cls, kwargs) ==
    IF /\ HasKey(kwargs, "natural_key") /\ ValueOf(kwargs, "natural_key") # <<>>
       /\ ~HasKey(kwargs, "data")
    THEN [cls |-> cls, key |-> underlying(ValueOf(kwargs, "natural_key"))]
    ELSE [cls |-> cls, key |-> hash_bytes(JsonDumpsSorted(Salient(kwargs)))]

\* DedupeKeyMeta.__init__
DedupeKeyMeta_init(cls, kwargs) ==
    IF HasKey(kwargs, "natural_key") /\ ValueOf(kwargs, "natural_key") # <<>>
    THEN [cls |-> cls, key |-> underlying(ValueOf(kwargs, "natural_key"))]
    ELSE [cls |-> cls, key |-> hash_bytes(JsonDumpsSorted(Salient(kwargs)))]

\* DedupeKeyMeta.__str__
DedupeKeyMeta_str(self) == prefix(self.cls) \o <<":">> \o self.key

\* Python values that reach __eq__ and the structure hook.
NoneVal == [t |-> "none", s |-> <<>>, o |-> NoKey]
StrVal(s) == [t |-> "str", s |-> s, o |-> NoKey]
KeyVal(o) == [t |-> "key", s |-> <<>>, o |-> o]
IntVal == [t |-> "int", s |-> <<"1", "2", "3">>, o |-> NoKey]

\* __eq__ on the rendered strings, prefix included.
DedupeKeyMeta_eq_with_prefix(self, value) ==
    IF value.t = "key"
    THEN DedupeKeyMeta_str(self) = DedupeKeyMeta_str(value.o)
    ELSE FALSE

\* DedupeKeyMeta.__eq__
DedupeKeyMeta_eq(self, value) ==
    IF value.t = "key" THEN self.key = value.o.key ELSE FALSE

\* dedupe_key_des_hook_factory(cls)(v)
dedupe_key_des_hook(v) == StrVal(DedupeKeyMeta_str(v))

NotParsed == [status |-> "none", obj |-> NoKey, target |-> "None", value |-> NoneVal]

\* dedupe_key_res_hook_factory(cls)._wrapper(value, _)
dedupe_key_res_hook(cls, value) ==
    IF value.t = "str"
    THEN [status |-> "ok",
          obj |-> DedupeKeyMeta_init(cls, <<<<"natural_key", underlying(value.s)>>>>),
          target |-> cls, value |-> value]
    ELSE IF value.t = "key" /\ value.o.cls = cls
    THEN [status |-> "ok", obj |-> value.o, target |-> cls, value |-> value]
    ELSE [status |-> "TypeError", obj |-> NoKey, target |-> cls, value |-> value]

----------------------------------------------------------------------------
\* wrappers.py, exceptions.py

\* An optional string argument: None, or a string (which may be empty).
None == [some |-> FALSE, s |-> <<>>]
Some(s) == [some |-> TRUE, s |-> s]
Truthy(opt) == opt.some /\ opt.s # <<>>

\* TableInfo (an attrs class: every instance is truthy)
NoTableInfo ==
    [some |-> FALSE, project_id |-> <<>>, dataset_id |-> <<>>, table_id |-> <<>>]
TableInfo(project_id, dataset_id, table_id) ==
    [some |-> TRUE, project_id |-> project_id, dataset_id |-> dataset_id,
     table_id |-> table_id]

\* TableInfo.full_table_id
full_table_id(table) ==
    table.project_id \o <<".">> \o table.dataset_id \o <<".">> \o table.table_id

NoError ==
    [type |-> "None", raw_name |-> <<>>, stamped_name |-> <<>>,
     unstamped_name |-> <<>>, args |-> <<>>]

\* VersionStampError(info)
VersionStampError(info) ==
    [type |-> "VersionStampError", raw_name |-> info.raw_name,
     stamped_name |-> info.stamped_name, unstamped_name |-> info.unstamped_name,
     args |-> <<>>]

\* TableIdentifierError(*args)
TableIdentifierError(args) ==
    [type |-> "TableIdentifierError", raw_name |-> <<>>, stamped_name |-> <<>>,
     unstamped_name |-> <<>>, args |-> args]

\* An exception (a subclass of Exception) raised by a strategy's own code.
StrategyError ==
    [type |-> "Exception", raw_name |-> <<>>, stamped_name |-> <<>>,
     unstamped_name |-> <<>>, args |-> <<>>]

\* __init__ splitting the fully-qualified name into at most three segments.
VersionStampedTableName_init_maxsplit(kw) ==
    LET tried == <<kw.project_id, kw.dataset_id, kw.table_id,
                   kw.full_table_name, kw.table_info>>
    IN  IF kw.table_info.some
        THEN [ok |-> TRUE, table |-> kw.table_info, err |-> NoError]
        ELSE IF Truthy(kw.project_id) /\ Truthy(kw.dataset_id) /\ Truthy(kw.table_id)
        THEN [ok |-> TRUE,
              table |-> TableInfo(kw.project_id.s, kw.dataset_id.s, kw.table_id.s),
              err |-> NoError]
        ELSE IF Truthy(kw.full_table_name)
        THEN LET parts == Split(kw.full_table_name.s, ".")
             IN  IF Len(parts) >= 3
                 THEN [ok |-> TRUE,
                       table |-> TableInfo(parts[1], parts[2],
                                           Join(SubSeq(parts, 3, Len(parts)), ".")),
                       err |-> NoError]
                 ELSE [ok |-> FALSE, table |-> NoTableInfo,
                       err |-> TableIdentifierError(tried)]
        ELSE [ok |-> FALSE, table |-> NoTableInfo,
              err |-> TableIdentifierError(tried)]

\* VersionStampedTableName.__init__, up to super().__init__: the table the
\* keyword arguments resolve to, or the error raised.
VersionStampedTableName_init(kw) ==
    LET tried == <<kw.project_id, kw.dataset_id, kw.table_id,
                   kw.full_table_name, kw.table_info>>
    IN  IF kw.table_info.some
        THEN [ok |-> TRUE, table |-> kw.table_info, err |-> NoError]
        ELSE IF Truthy(kw.project_id) /\ Truthy(kw.dataset_id) /\ Truthy(kw.table_id)
        THEN [ok |-> TRUE,
              table |-> TableInfo(kw.project_id.s, kw.dataset_id.s, kw.table_id.s),
              err |-> NoError]
        ELSE IF Truthy(kw.full_table_name)
        THEN LET parts == Split(kw.full_table_name.s, ".")
             IN  IF Len(parts) = 3
                 THEN [ok |-> TRUE,
                       table |-> TableInfo(parts[1], parts[2], parts[3]),
                       err |-> NoError]
                 ELSE [ok |-> FALSE, table |-> NoTableInfo,
                       err |-> TableIdentifierError(tried)]
        ELSE [ok |-> FALSE, table |-> NoTableInfo,
              err |-> TableIdentifierError(tried)]

\* datetime.now(utc).strftime('%Y%m%dT%H%M%S') at clock reading t
Strftime(t) ==
    <<"2", "0", "2", "6", "1", "0", "3", "0", "T", "1", "2", "0", "0">>
    \o <<DigitOf((t \div 10) % 10), DigitOf(t % 10)>>

\* _utc_numeric_version_stamp._stamp
utc_stamp_segment(segment, t) == segment \o <<"_">> \o Strftime(t)

\* _utc_numeric_version_stamp
utc_numeric_version_stamp(table_name, t) ==
    LET table_split == Split(table_name, ".")
    IN  IF Len(table_split) = 1
        THEN utc_stamp_segment(table_split[1], t)
        ELSE Join(SubSeq(table_split, 1, Len(table_split) - 1)
                    \o <<utc_stamp_segment(Last(table_split), t)>>, ".")

\* str.isnumeric on the characters of the model's alphabet
IsNumeric(ch) == ch \in Digits

RECURSIVE find_split_point(_, _)
\* _utc_numeric_version_cleaner._find_split_point, from index n (negative,
\* counted from the end); 0 stands for None.
find_split_point(table_name, n) ==
    IF ~((-n) - 1 < Len(table_name)) THEN 0
    ELSE LET ch == table_name[Len(table_name) + n + 1]
         IN  IF ~IsNumeric(ch) THEN 0
             ELSE IF ch = "_" THEN n
             ELSE find_split_point(table_name, n - 1)

\* str(FAILED_OP), the repr of the sentinel
FAILED_OP == <<"<FAILED_OP>">>

\* The cleaner as a cut at the last underscore, whatever follows it.
utc_numeric_version_cleaner_any_suffix(table_name) ==
    IF \E i \in 1..Len(table_name) : table_name[i] = "_"
    THEN LET i == CHOOSE i \in 1..Len(table_name) :
                    /\ table_name[i] = "_"
                    /\ \A j \in (i + 1)..Len(table_name) : table_name[j] # "_"
         IN  SubSeq(table_name, 1, i - 1)
    ELSE FAILED_OP

\* str(_utc_numeric_version_cleaner(table_name)), as UtcVersionStampedTableName.unstamp
utc_numeric_version_cleaner(table_name) ==
    LET idx == find_split_point(table_name, -1)
    IN  IF idx = 0 THEN FAILED_OP
        ELSE SubSeq(table_name, 1, Len(table_name) + idx)

\* StagingTableName._default_suffix
default_suffix == <<"_", "s", "t", "a", "g", "i", "n", "g">>

\* StagingTableName.stamp
StagingTableName_stamp(table_name) == table_name \o default_suffix

RECURSIVE StagingTableName_unstamp_all(_)
\* unstamp removing every trailing suffix, not one.
StagingTableName_unstamp_all(table_name) ==
    IF RemoveSuffix(table_name, default_suffix) = table_name THEN table_name
    ELSE StagingTableName_unstamp_all(RemoveSuffix(table_name, default_suffix))

\* StagingTableName.unstamp
StagingTableName_unstamp(table_name) == RemoveSuffix(table_name, default_suffix)

\* cls.stamp(name), at clock reading t
stamp(cls, table_name, t) ==
    IF cls = "UtcVersionStampedTableName"
    THEN utc_numeric_version_stamp(table_name, t)
    ELSE StagingTableName_stamp(table_name)

\* cls.unstamp(name)
unstamp(cls, table_name) ==
    IF cls = "UtcVersionStampedTableName"
    THEN utc_numeric_version_cleaner(table_name)
    ELSE StagingTableName_unstamp(table_name)

\* Strategies written by a caller: subclasses of VersionStampedTableName
\* that implement the abstract stamp and unstamp, one whose stamp raises and
\* one (stamping as StagingTableName does) whose unstamp raises.
RaisingKinds == {"StampRaises", "UnstampRaises"}
stamp_raises(cls) == cls = "StampRaises"
unstamp_raises(cls) == cls = "UnstampRaises"

\* f"<error when calling self.{key.split('_')[0]}>"
Placeholder(key) ==
    <<"<error when calling self.">> \o Split(key, "_")[1] \o <<">">>
stamped_name_key == <<"s", "t", "a", "m", "p", "e", "d", "_", "n", "a", "m", "e">>
unstamped_name_key ==
    <<"u", "n", "s", "t", "a", "m", "p", "e", "d", "_", "n", "a", "m", "e">>

\* _validate that accepts whatever unstamp returns.
VersionStampedName_validate_unchecked(cls, raw, t) ==
    LET stamped == stamp(cls, raw, t)
    IN  [ok |-> TRUE, stamped |-> stamped, unstamped |-> unstamp(cls, stamped),
         err |-> NoError, invoked |-> <<"stamp", "unstamp">>]

\* VersionStampedName._validate: stamped and unstamped are cached properties,
\* computed here once; both _attempt_assign calls read self.stamped, inside
\* a try, and _valid_roundtrip reads self.unstamped outside of any.
VersionStampedName_validate(cls, raw, t) ==
    LET stamped == stamp(cls, raw, t)
        initial == [raw_name |-> raw, stamped_name |-> <<>>,
                    unstamped_name |-> <<>>]
        after_stamped == [initial EXCEPT !.stamped_name = stamped]
        error_args == [after_stamped EXCEPT !.unstamped_name = stamped]
        unstamped == unstamp(cls, stamped)
    IN  IF stamp_raises(cls)
        THEN [ok |-> FALSE, stamped |-> <<>>, unstamped |-> <<>>,
              err |-> VersionStampError(
                         [initial EXCEPT
                             !.stamped_name = Placeholder(stamped_name_key)]),
              invoked |-> <<"stamp">>]
        ELSE IF unstamp_raises(cls)
        THEN [ok |-> FALSE, stamped |-> stamped, unstamped |-> <<>>,
              err |-> StrategyError, invoked |-> <<"stamp", "unstamp">>]
        ELSE IF unstamped = raw
        THEN [ok |-> TRUE, stamped |-> stamped, unstamped |-> unstamped,
              err |-> NoError, invoked |-> <<"stamp", "unstamp">>]
        ELSE [ok |-> FALSE, stamped |-> stamped, unstamped |-> unstamped,
              err |-> VersionStampError(error_args),
              invoked |-> <<"stamp", "unstamp">>]

NoInst ==
    [cls |-> "None", table |-> NoTableInfo, suffix |-> <<>>, stamped |-> <<>>,
     unstamped |-> <<>>]

\* A construction whose StagingTableName stamps with the suffix it was given.
Construct_suffix_stamped(cls, staging_suffix, kw, t) ==
    LET suffix == IF Truthy(staging_suffix) THEN staging_suffix.s ELSE default_suffix
        resolved == VersionStampedTableName_init(kw)
        raw == full_table_id(resolved.table)
        checked == VersionStampedName_validate(cls, raw, t)
        stamped == IF cls = "StagingTableName" THEN raw \o suffix
                   ELSE checked.stamped
        unstamped == IF cls = "StagingTableName" THEN unstamp(cls, stamped)
                     ELSE checked.unstamped
    IN  IF ~resolved.ok
        THEN [inst |-> NoInst, err |-> resolved.err, invoked |-> <<>>]
        ELSE IF cls # "StagingTableName" /\ ~checked.ok
        THEN [inst |-> NoInst, err |-> checked.err, invoked |-> checked.invoked]
        ELSE IF unstamped # raw
        THEN [inst |-> NoInst,
              err |-> VersionStampError([raw_name |-> raw, stamped_name |-> stamped,
                                         unstamped_name |-> stamped]),
              invoked |-> checked.invoked]
        ELSE [inst |-> [cls |-> cls, table |-> resolved.table,
                        suffix |-> IF cls = "StagingTableName" THEN suffix ELSE <<>>,
                        stamped |-> stamped, unstamped |-> unstamped],
              err |-> NoError, invoked |-> checked.invoked]

\* cls(staging_suffix, **kw) at clock reading t: the instance returned or the
\* error raised.  (UtcVersionStampedTableName takes no staging_suffix.)
Construct(cls, staging_suffix, kw, t) ==
    LET suffix == IF Truthy(staging_suffix) THEN staging_suffix.s ELSE default_suffix
        resolved == VersionStampedTableName_init(kw)
        checked == VersionStampedName_validate(cls, full_table_id(resolved.table), t)
    IN  IF ~resolved.ok
        THEN [inst |-> NoInst, err |-> resolved.err, invoked |-> <<>>]
        ELSE IF ~checked.ok
        THEN [inst |-> NoInst, err |-> checked.err, invoked |-> checked.invoked]
        ELSE [inst |-> [cls |-> cls, table |-> resolved.table,
                        suffix |-> IF cls = "StagingTableName" THEN suffix ELSE <<>>,
                        stamped |-> checked.stamped,
                        unstamped |-> checked.unstamped],
              err |-> NoError, invoked |-> checked.invoked]

\* VersionStampedName.raw
VersionStampedName_raw(self) == full_table_id(self.table)

\* What reading a property gave, and the strategy methods the read invoked.
ReadOutcome(value, methods) == [value |-> value, invoked |-> methods]

\* stamped as a plain property, evaluated at every read.
VersionStampedName_stamped_uncached(self, t) ==
    ReadOutcome(stamp(self.cls, VersionStampedName_raw(self), t), <<"stamp">>)

\* VersionStampedName.stamped, a cached_property, read at clock reading t on
\* an instance: _validate has read it, so the value is in the instance.
VersionStampedName_stamped(self, t) == ReadOutcome(self.stamped, <<>>)

\* VersionStampedName.unstamped, a cached_property, likewise
VersionStampedName_unstamped(self, t) == ReadOutcome(self.unstamped, <<>>)

NoRead == [n |-> 0, attr |-> "", value |-> <<>>]
NoCleaned == [called |-> FALSE, name |-> <<>>, out |-> <<>>]

NoKw ==
    [table_info |-> NoTableInfo, project_id |-> None, dataset_id |-> None,
     table_id |-> None, full_table_name |-> None]
NoCall == [cls |-> "None", staging_suffix |-> None, kw |-> NoKw, at |-> 0]

----------------------------------------------------------------------------
\* type_cellar/_types.py, converters/: the sentinels and the converter

\* A Python value that passes through the converter: its runtime class, the
\* text of a string (for a class given as a value, its name) and, for an
\* instance, the identity of the object.
PyNone == [cls |-> "NoneType", s |-> <<>>, id |-> 0]
PyStr(s) == [cls |-> "str", s |-> s, id |-> 0]
PyInt == [cls |-> "int", s |-> <<"1", "2", "3">>, id |-> 0]
PyInteger(s) == [cls |-> "int", s |-> s, id |-> 0]
PyFloat(s) == [cls |-> "float", s |-> s, id |-> 0]
PyObj(cls, id) == [cls |-> cls, s |-> <<>>, id |-> id]

SentinelClasses == {"OmittedDefaultSentinel", "NotImplementSentinel"}
ExceptionClasses == {"ValueError", "Exception", "GeneratorExit"}

\* type(cls): the classes that derive from ABC have the metaclass ABCMeta
metaclass(cls) ==
    IF cls \in SentinelClasses \cup DedupeKinds
               \cup {"SentinelMeta", "DedupeKeyMeta", "JSON_MapString", "MapString"}
    THEN "ABCMeta"
    ELSE IF cls = "HTTPStatus" THEN "EnumType"
    ELSE "type"

\* A class given as a value: its runtime class is its metaclass
PyClass(cls) == [cls |-> metaclass(cls), s |-> <<cls>>, id |-> 0]

\* cls.__mro__
mro(cls) ==
    IF cls \in SentinelClasses
    THEN <<cls, "SentinelMeta", "ABC", "Sentinel", "object">>
    ELSE IF cls = "SentinelMeta" THEN <<"SentinelMeta", "ABC", "Sentinel", "object">>
    ELSE IF cls \in DedupeKinds THEN <<cls, "DedupeKeyMeta", "ABC", "object">>
    ELSE IF cls = "ABCMeta" THEN <<"ABCMeta", "type", "object">>
    ELSE IF cls = "EnumType" THEN <<"EnumType", "type", "object">>
    ELSE IF cls = "datetime" THEN <<"datetime", "date", "object">>
    ELSE IF cls = "HTTPStatus"
    THEN <<"HTTPStatus", "IntEnum", "int", "ReprEnum", "Enum", "object">>
    ELSE IF cls = "JSON_MapString"
    THEN <<"JSON_MapString", "MapString", "Mapping", "Collection", "Sized",
           "Iterable", "Container", "object">>
    ELSE IF cls = "bool" THEN <<"bool", "int", "object">>
    ELSE IF cls = "ValueError"
    THEN <<"ValueError", "Exception", "BaseException", "object">>
    ELSE IF cls = "Exception" THEN <<"Exception", "BaseException", "object">>
    ELSE IF cls = "GeneratorExit" THEN <<"GeneratorExit", "BaseException", "object">>
    ELSE <<cls, "object">>

issubclass(cls, base) == \E i \in 1..Len(mro(cls)) : mro(cls)[i] = base
isinstance(value, cls) == issubclass(value.cls, cls)

\* OmittedDefaultSentinel.value, NotImplementSentinel.value
SentinelMeta_value(cls) ==
    IF cls = "OmittedDefaultSentinel"
    THEN <<"O", "M", "I", "T", "T", "E", "D">>
    ELSE <<"N", "O", "T", "-", "I", "M", "P", "L", "E", "M", "E", "N", "T", "E", "D">>

\* SentinelMeta.make: cls(cls.value()), a new object, where heap objects exist
SentinelMeta_make(cls, heap) == PyObj(cls, heap + 1)

\* SentinelMeta.__str__
SentinelMeta_str(self) == SentinelMeta_value(self.cls)

\* _OMITTED_DEFAULT and _NOT_IMPLEMENTED, made when the package is imported
OMITTED_DEFAULT == SentinelMeta_make("OmittedDefaultSentinel", 0)
NOT_IMPLEMENTED == SentinelMeta_make("NotImplementSentinel", 1)
ImportedObjects == 2

\* NotImplementSentinel.__eq__
NotImplementSentinel_eq(self, other) == self.cls = other.cls

\* a == b: NotImplementSentinel compares classes (also when it is the right
\* operand, by reflection); OmittedDefaultSentinel defines no __eq__ and is
\* compared as every object is, by identity; strings and None by value.
PyEq(a, b) ==
    IF a.cls = "NotImplementSentinel" THEN NotImplementSentinel_eq(a, b)
    ELSE IF b.cls = "NotImplementSentinel" THEN NotImplementSentinel_eq(b, a)
    ELSE a = b

\* The errors of the converter
\* An error is its class and what its message names: the value, the
\* runtime type of the value and the target type.
NoConvError == [type |-> "None", value |-> PyNone, rtype |-> "", target |-> ""]
\* raise_type_error(value, t):
\* TypeError("Cannot structure {value!r} into {t} (type: {type(value)})")
raise_type_error(value, t) ==
    [type |-> "TypeError", value |-> value, rtype |-> value.cls, target |-> t]
\* cattrs: no hook structures into the type
StructureHandlerNotFoundError(t) ==
    [type |-> "StructureHandlerNotFoundError", value |-> PyNone, rtype |-> "",
     target |-> t]
\* What a message that does not name the value holds in its place.
Unnamed == [cls |-> "", s |-> <<>>, id |-> 0]
\* An error raised by the standard library or by a hook's own raise
PyError(type, value, rtype, target) ==
    [type |-> type, value |-> value, rtype |-> rtype, target |-> target]

\* What a hook did: the value it returned or the error it raised, and the
\* number of objects there are afterwards.
Returned(out, heap) == [out |-> out, err |-> NoConvError, heap |-> heap]
RaisedIn(err, heap) == [out |-> PyNone, err |-> err, heap |-> heap]

NullString == <<"n", "u", "l", "l">>
NoneString == <<"n", "o", "n", "e">>

\* sentinel_res_hook_factory(cls)._wrapper
sentinel_res_hook(cls, value, heap) ==
    IF value.cls = "str" /\ value.s = SentinelMeta_value(cls)
    THEN Returned(SentinelMeta_make(cls, heap), heap + 1)
    ELSE IF isinstance(value, cls) THEN Returned(value, heap)
    ELSE RaisedIn(raise_type_error(value, cls), heap)

\* sentinel_optional_res_hook_factory(cls)._wrapper
sentinel_optional_res_hook(cls, value, heap) ==
    IF value.cls = "str"
    THEN IF value.s = SentinelMeta_value(cls)
         THEN Returned(SentinelMeta_make(cls, heap), heap + 1)
         ELSE IF value.s = NullString \/ value.s = NoneString
         THEN Returned(PyNone, heap)
         ELSE RaisedIn(raise_type_error(value, cls), heap)
    ELSE IF isinstance(value, cls) THEN Returned(value, heap)
    ELSE IF value = PyNone THEN Returned(PyNone, heap)
    ELSE RaisedIn(raise_type_error(value, cls), heap)

\* sentinel_des_hook_factory(cls): lambda v: str(v)
sentinel_des_hook(v) == PyStr(SentinelMeta_str(v))

\* sentinel_optional_des_hook_factory(cls)
sentinel_optional_des_hook(v) ==
    IF v # PyNone THEN PyStr(SentinelMeta_str(v)) ELSE PyNone

UpperCase ==
    <<"A", "B", "C", "D", "E", "F", "G", "H", "I", "J", "K", "L", "M",
      "N", "O", "P", "Q", "R", "S", "T", "U", "V", "W", "X", "Y", "Z">>
LowerCase ==
    <<"a", "b", "c", "d", "e", "f", "g", "h", "i", "j", "k", "l", "m",
      "n", "o", "p", "q", "r", "s", "t", "u", "v", "w", "x", "y", "z">>

\* str.lower, on the letters A to Z
str_lower(s) ==
    [i \in 1..Len(s) |->
        IF \E j \in 1..26 : UpperCase[j] = s[i]
        THEN LowerCase[CHOOSE j \in 1..26 : UpperCase[j] = s[i]]
        ELSE s[i]]

RECURSIVE str_lstrip(_)
str_lstrip(s) ==
    IF s # <<>> /\ Head(s) = " " THEN str_lstrip(Tail(s)) ELSE s
RECURSIVE str_rstrip(_)
str_rstrip(s) ==
    IF s # <<>> /\ Last(s) = " " THEN str_rstrip(SubSeq(s, 1, Len(s) - 1)) ELSE s
\* str.strip, of spaces
str_strip(s) == str_rstrip(str_lstrip(s))

OmittedString == <<"o", "m", "i", "t", "t", "e", "d">>

\* optional_string_structure_hook: a value that is neither a string nor
\* None reaches the end of the function, which returns None.
optional_string_structure_hook(value, heap) ==
    IF value.cls = "str"
    THEN IF \/ str_lower(value.s) = NullString
            \/ str_strip(value.s) = <<>>
            \/ value.s = OmittedString
         THEN Returned(PyNone, heap)
         ELSE Returned(value, heap)
    ELSE IF value = PyNone THEN Returned(PyNone, heap)
    ELSE Returned(PyNone, heap)

HexDigits == Digits \cup {"a", "b", "c", "d", "e", "f"}

\* A uuid.UUID object: its 32 hexadecimal digits
PyUUID(hex) == [cls |-> "UUID", s |-> hex, id |-> 0]

\* uuid.UUID(hex): the hyphens are removed, 32 hexadecimal digits of either
\* case are required.
uuid_UUID(hex, heap) ==
    LET digits == str_lower(SelectSeq(hex, LAMBDA c : c # "-"))
    IN  IF Len(digits) = 32 /\ \A i \in 1..32 : digits[i] \in HexDigits
        THEN Returned(PyUUID(digits), heap)
        ELSE RaisedIn(PyError("ValueError", Unnamed, "", ""), heap)

\* str(uuid.UUID): the digits in groups of 8-4-4-4-12
UUID_str(self) ==
    SubSeq(self.s, 1, 8) \o <<"-">> \o SubSeq(self.s, 9, 12) \o <<"-">>
    \o SubSeq(self.s, 13, 16) \o <<"-">> \o SubSeq(self.s, 17, 20) \o <<"-">>
    \o SubSeq(self.s, 21, 32)

\* UUID_Str.__init__, given a string or a uuid.UUID (which is truthy)
UUID_Str_init(value, heap) ==
    IF value.cls = "str"
    THEN LET u == uuid_UUID(value.s, heap)
         IN  IF u.err = NoConvError
             THEN Returned([cls |-> "UUID_Str", s |-> u.out.s, id |-> 0], heap)
             ELSE u
    ELSE Returned([cls |-> "UUID_Str", s |-> value.s, id |-> 0], heap)

\* UUID_Str.__str__
UUID_Str_str(self) == UUID_str(self)

\* uuid_from_hex without its last line: what is neither a string nor a
\* uuid.UUID reaches the end of the function, which returns None.
uuid_from_hex_no_raise(value, heap) ==
    IF value.cls = "str" THEN uuid_UUID(value.s, heap)
    ELSE IF value.cls = "UUID" THEN Returned(value, heap)
    ELSE Returned(PyNone, heap)

\* uuid_from_hex
uuid_from_hex(value, heap) ==
    IF value.cls = "str" THEN uuid_UUID(value.s, heap)
    ELSE IF value.cls = "UUID" THEN Returned(value, heap)
    ELSE RaisedIn(raise_type_error(value, "UUID"), heap)

\* make_uuid_str
make_uuid_str(value, heap) ==
    IF value.cls = "str" \/ value.cls = "UUID" THEN UUID_Str_init(value, heap)
    ELSE RaisedIn(raise_type_error(value, "UUID_Str"), heap)

\* uuid_to_hex
uuid_to_hex(value) == PyStr(UUID_Str_str(UUID_Str_init(value, 0).out))
\* res_uuid_str
res_uuid_str(value) == PyStr(UUID_Str_str(value))

\* datetime.fromisoformat, of the texts YYYY-MM-DD, a separator, HH:MM:SS:
\* the object holds the date and the time, written here with the separator T.
datetime_fromisoformat(value, heap) ==
    IF /\ Len(value.s) = 19
       /\ \A i \in 1..19 :
             IF i \in {5, 8} THEN value.s[i] = "-"
             ELSE IF i \in {14, 17} THEN value.s[i] = ":"
             ELSE IF i = 11 THEN value.s[i] \in {"T", " "}
             ELSE value.s[i] \in Digits
    THEN Returned([cls |-> "datetime", s |-> [value.s EXCEPT ![11] = "T"],
                   id |-> 0], heap)
    ELSE RaisedIn(PyError("ValueError", value, "", ""), heap)

\* res_datetimes
res_datetimes(value, heap) ==
    IF value.cls = "str" THEN datetime_fromisoformat(value, heap)
    ELSE IF value.cls = "datetime" THEN Returned(value, heap)
    ELSE RaisedIn(raise_type_error(value, "datetime"), heap)

\* des_datetimes: value.isoformat()
des_datetimes(value) == PyStr(value.s)

\* base_enum: str(value.value), of an HTTPStatus the digits of its integer
base_enum(value) == PyStr(value.s)

\* int(v): an integer itself, the value of an HTTPStatus, the integer of a
\* uuid.UUID (written here by its hexadecimal digits), a float truncated, a
\* string of digits parsed; ValueError for another string, TypeError for
\* another type.
py_int(value, heap) ==
    IF value.cls = "int" THEN Returned(value, heap)
    ELSE IF value.cls = "HTTPStatus" THEN Returned(PyInteger(value.s), heap)
    ELSE IF value.cls = "UUID"
    THEN Returned(PyInteger(<<"0", "x">> \o value.s), heap)
    ELSE IF value.cls = "float"
    THEN Returned(PyInteger(SubSeq(value.s, 1, IndexOf(value.s, ".") - 1)), heap)
    ELSE IF value.cls = "str"
    THEN IF /\ str_strip(value.s) # <<>>
            /\ \A i \in 1..Len(str_strip(value.s)) : str_strip(value.s)[i] \in Digits
         THEN Returned(PyInteger(str_strip(value.s)), heap)
         ELSE RaisedIn(PyError("ValueError", value, "", ""), heap)
    ELSE RaisedIn(PyError("TypeError", Unnamed, value.cls, ""), heap)

\* The members of http.HTTPStatus among the integers of the inputs
HTTPStatusValues == {<<"2", "0", "0">>, <<"4", "0", "4">>}

\* HTTPStatus(n)
HTTPStatus(n, heap) ==
    IF n.s \in HTTPStatusValues
    THEN Returned([cls |-> "HTTPStatus", s |-> n.s, id |-> 0], heap)
    ELSE RaisedIn(PyError("ValueError", n, "", "HTTPStatus"), heap)

\* register_enum_hooks: lambda v, _: HTTPStatus(int(v))
http_status_structure_hook(value, heap) ==
    IF py_int(value, heap).err = NoConvError
    THEN HTTPStatus(py_int(value, heap).out, heap)
    ELSE py_int(value, heap)

\* A dict, by its compact JSON text
PyDict(s) == [cls |-> "dict", s |-> s, id |-> 0]
EmptyObjectText == <<"{", "}">>
EmptyArrayText == <<"[", "]">>

\* json.loads, of the texts of an empty object and of an empty array with
\* any spaces, of an integer and of null; every other text of the inputs is
\* not JSON.
json_loads(s, heap) ==
    LET body == SelectSeq(s, LAMBDA c : c # " ")
    IN  IF body = EmptyObjectText THEN Returned(PyDict(body), heap)
        ELSE IF body = EmptyArrayText
        THEN Returned([cls |-> "list", s |-> body, id |-> 0], heap)
        ELSE IF body = NullString /\ s = NullString THEN Returned(PyNone, heap)
        ELSE IF s # <<>> /\ \A i \in 1..Len(s) : s[i] \in Digits
        THEN Returned(PyInteger(s), heap)
        ELSE RaisedIn(PyError("JSONDecodeError", Unnamed, "", ""), heap)

\* JSON_MapString(data)
JSON_MapString(data) == [cls |-> "JSON_MapString", s |-> data.s, id |-> 0]

\* json_mapstring_res
json_mapstring_res(value, heap) ==
    IF value.cls = "str"
    THEN LET loaded == json_loads(value.s, heap)
         IN  IF loaded.err # NoConvError THEN loaded
             ELSE IF loaded.out.cls # "dict"
             THEN RaisedIn(PyError("TypeError", Unnamed, "", "JSON_MapString"), heap)
             ELSE Returned(JSON_MapString(loaded.out), heap)
    ELSE IF value.cls = "dict" THEN Returned(JSON_MapString(value), heap)
    ELSE RaisedIn(PyError("TypeError", Unnamed, value.cls, "JSON_MapString"), heap)

\* A dedupe key as a value of the converter, and a value of the converter
\* as the structure hook of the dedupe keys is given it.
PyDedupeKey(key) == [cls |-> key.cls, s |-> key.key, id |-> 0]
AsHookValue(value) ==
    IF value.cls \in DedupeKinds
    THEN KeyVal([cls |-> value.cls, key |-> value.s])
    ELSE [t |-> IF value = PyNone THEN "none" ELSE value.cls,
          s |-> value.s, o |-> NoKey]

\* dedupe_key_res_hook_factory(cls)._wrapper, on a value of the converter
dedupe_key_structure_hook(cls, value, heap) ==
    LET r == dedupe_key_res_hook(cls, AsHookValue(value))
    IN  IF r.status = "ok" THEN Returned(PyDedupeKey(r.obj), heap)
        ELSE RaisedIn(raise_type_error(value, cls), heap)

\* cls.__name__
ClassName(cls) ==
    IF cls = "ValueError" THEN <<"V", "a", "l", "u", "e", "E", "r", "r", "o", "r">>
    ELSE IF cls = "Exception"
    THEN <<"E", "x", "c", "e", "p", "t", "i", "o", "n">>
    ELSE IF cls = "GeneratorExit"
    THEN <<"G", "e", "n", "e", "r", "a", "t", "o", "r", "E", "x", "i", "t">>
    ELSE <<cls>>

\* An exception made with one string argument: cls(message)
PyException(cls, message) == [cls |-> cls, s |-> message, id |-> 0]

\* BaseException.__repr__, of an exception made with one string argument
BaseException_repr(exc) ==
    ClassName(exc.cls) \o <<"(", "'">> \o exc.s \o <<"'", ")">>

\* What an unstructure hook did: the value it returned or the error it raised.
Destructured(out) == [out |-> out, err |-> NoConvError]
DesRaised(err) == [out |-> PyNone, err |-> err]

\* des_exception_instance
des_exception_instance(exc) == Destructured(PyStr(BaseException_repr(exc)))

\* des_exception_type
des_exception_type(v) ==
    IF issubclass(v.s[1], "BaseException")
    THEN Destructured(PyStr(ClassName(v.s[1])))
    ELSE DesRaised(raise_type_error(v, "BaseException"))

\* The catch-all without its branch for the exception classes.
unstructure_type_hook_sentinels_only(v) ==
    IF ~issubclass(v.cls, "type") THEN Destructured(v)
    ELSE IF issubclass(v.s[1], "SentinelMeta")
    THEN Destructured(PyStr(SentinelMeta_value(v.s[1])))
    ELSE Destructured(v)

\* get_converter._unstructure_type_hook: issubclass raises TypeError on what
\* is not a class, the hook catches it and returns the value.
unstructure_type_hook(v) ==
    IF ~issubclass(v.cls, "type") THEN Destructured(v)
    ELSE IF issubclass(v.s[1], "SentinelMeta")
    THEN Destructured(PyStr(SentinelMeta_value(v.s[1])))
    ELSE IF issubclass(v.s[1], "BaseException")
    THEN Destructured(PyStr(ClassName(v.s[1])))
    ELSE IF v.cls = "str" /\ str_lower(v.s) = NullString
    THEN Destructured(PyNone)
    ELSE Destructured(v)

\* Types: a class, Annotated[class, ...] or a union
Class(cls) == [origin |-> "class", arg |-> cls]
Annotated(cls) == [origin |-> "Annotated", arg |-> cls]
Union(members) == [origin |-> "union", arg |-> members]
NoType == [origin |-> "None", arg |-> ""]
get_origin(t) == t.origin
\* get_args(t)[0]
get_args_first(t) == Class(t.arg)

\* The predicates hooks are registered under
\* lambda t: issubclass(t, SentinelMeta); lambda t: issubclass(t, DedupeKeyMeta);
\* lambda t: get_origin(t) is Annotated.  issubclass raises on what is not a
\* class, which the dispatch takes as no match.
Matches(pred, t) ==
    IF pred = "is_sentinel"
    THEN get_origin(t) = "class" /\ issubclass(t.arg, "SentinelMeta")
    ELSE IF pred = "is_dedupe_key"
    THEN get_origin(t) = "class" /\ issubclass(t.arg, "DedupeKeyMeta")
    ELSE pred = "is_annotated" /\ get_origin(t) = "Annotated"

\* One registration: conv.register_structure_hook (dir "res") or
\* conv.register_unstructure_hook (dir "des"), for a class (kind "exact"),
\* a union (kind "union") or a predicate (kind "pred").
Reg(dir, kind, target, hook) ==
    [dir |-> dir, kind |-> kind, target |-> target, hook |-> hook]

register_uuid_hooks ==
    <<Reg("res", "exact", "UUID", "uuid_from_hex"),
      Reg("des", "exact", "UUID", "uuid_to_hex"),
      Reg("res", "exact", "UUID_Str", "make_uuid_str"),
      Reg("des", "exact", "UUID_Str", "res_uuid_str")>>

register_datetime_hooks ==
    <<Reg("des", "exact", "datetime", "des_datetimes"),
      Reg("res", "exact", "datetime", "res_datetimes")>>

register_enum_hooks ==
    <<Reg("res", "exact", "HTTPStatus", "HTTPStatus(int(v))"),
      Reg("des", "exact", "Enum", "base_enum"),
      Reg("des", "exact", "BaseStrEnum", "base_str_enum")>>

register_exception_hooks ==
    <<Reg("des", "exact", "BaseException", "des_exception_instance"),
      Reg("des", "exact", "type", "des_exception_type")>>

\* jsonify_sequences_des(conv)
jsonify_sequences_des ==
    <<Reg("des", "exact", "tuple", "list"),
      Reg("des", "exact", "set", "list")>>

register_json_hooks ==
    <<Reg("des", "exact", "tuple", "list"),
      Reg("des", "exact", "set", "list"),
      Reg("des", "exact", "JSON_MapString", "json_mapstring_des"),
      Reg("res", "exact", "JSON_MapString", "json_mapstring_res")>>

\* register_sentinel_hooks with the strict hooks registered last.
register_sentinel_hooks_strict_last ==
    <<Reg("des", "pred", "is_sentinel", "sentinel_optional_des_hook_factory"),
      Reg("des", "pred", "is_sentinel", "sentinel_des_hook_factory"),
      Reg("res", "pred", "is_sentinel", "sentinel_optional_res_hook_factory"),
      Reg("res", "pred", "is_sentinel", "sentinel_res_hook_factory")>>

register_sentinel_hooks ==
    <<Reg("des", "pred", "is_sentinel", "sentinel_des_hook_factory"),
      Reg("des", "pred", "is_sentinel", "sentinel_optional_des_hook_factory"),
      Reg("res", "pred", "is_sentinel", "sentinel_res_hook_factory"),
      Reg("res", "pred", "is_sentinel", "sentinel_optional_res_hook_factory")>>

\* register_attrs_hooks(conv, cls), for one class
register_attrs_hooks_for(cls) ==
    <<Reg("des", "exact", cls, "des_omit_factory"),
      Reg("res", "exact", cls, "make_dict_structure_fn")>>

\* register_attrs_hooks(converter), called with no classes
register_attrs_hooks == <<>>

register_dedupe_hooks ==
    <<Reg("des", "pred", "is_dedupe_key", "dedupe_key_des_hook_factory"),
      Reg("res", "pred", "is_dedupe_key", "dedupe_key_res_hook_factory")>>

\* get_converter's final hooks
final_hooks ==
    <<Reg("res", "union", "str | None", "optional_string_structure_hook"),
      Reg("res", "pred", "is_annotated", "annotated_structure_unwrap"),
      Reg("des", "exact", "type", "unstructure_type_hook")>>

\* get_converter: the registrations it makes on a new converter, in order
get_converter ==
    register_uuid_hooks \o register_datetime_hooks \o register_enum_hooks
    \o register_exception_hooks \o register_json_hooks
    \o register_sentinel_hooks \o register_attrs_hooks
    \o register_dedupe_hooks \o final_hooks

SetMax(S) == CHOOSE x \in S : \A y \in S : y <= x
SetMin(S) == CHOOSE x \in S : \A y \in S : x <= y

\* The registrations for exactly the class cls
ExactFor(regs, dir, cls) ==
    {i \in 1..Len(regs) :
        regs[i].dir = dir /\ regs[i].kind = "exact" /\ regs[i].target = cls}

\* Dispatch by class: the last registration for the first class of the
\* type's method resolution order that has one; 0 when there is none.
single_dispatch(regs, dir, t) ==
    IF get_origin(t) # "class" THEN 0
    ELSE LET order == mro(t.arg)
             hits == {j \in 1..Len(order) : ExactFor(regs, dir, order[j]) # {}}
             first == SetMin(hits)
         IN  IF hits = {} THEN 0
             ELSE SetMax(ExactFor(regs, dir, order[first]))

\* Dispatch by predicate: the last registered predicate that matches.
function_dispatch(regs, dir, t) ==
    LET hits == {i \in 1..Len(regs) :
                    /\ regs[i].dir = dir /\ regs[i].kind = "pred"
                    /\ Matches(regs[i].target, t)}
    IN  IF hits = {} THEN 0 ELSE SetMax(hits)

\* Dispatch of a union: the last registration made for that union.
union_dispatch(regs, dir, t) ==
    LET hits == {i \in 1..Len(regs) :
                    /\ regs[i].dir = dir /\ regs[i].kind = "union"
                    /\ get_origin(t) = "union" /\ regs[i].target = t.arg}
    IN  IF hits = {} THEN 0 ELSE SetMax(hits)

\* Dispatch trying the predicates before the classes.
dispatch_predicates_first(regs, dir, t) ==
    IF function_dispatch(regs, dir, t) # 0
    THEN regs[function_dispatch(regs, dir, t)].hook
    ELSE IF single_dispatch(regs, dir, t) # 0
    THEN regs[single_dispatch(regs, dir, t)].hook
    ELSE IF union_dispatch(regs, dir, t) # 0
    THEN regs[union_dispatch(regs, dir, t)].hook
    ELSE "not_found"

\* The hook the converter resolves for a type: by class, else by predicate
\* (the registered predicates before the converter's own one for the unions
\* that have a hook).
dispatch(regs, dir, t) ==
    LET single == single_dispatch(regs, dir, t)
        function == function_dispatch(regs, dir, t)
        union == union_dispatch(regs, dir, t)
    IN  IF single # 0 THEN regs[single].hook
        ELSE IF function # 0 THEN regs[function].hook
        ELSE IF union # 0 THEN regs[union].hook
        ELSE "not_found"

RECURSIVE Converter_structure(_, _, _, _)

\* An unwrap hook that returns the value as it is.
annotated_structure_keep(regs, v, t, heap) == Returned(v, heap)

\* get_converter._annotated_structure_unwrap
annotated_structure_unwrap(regs, v, t, heap) ==
    Converter_structure(regs, v, get_args_first(t), heap)

\* converter.structure(value, t): the hook resolved for t, called
Converter_structure(regs, value, t, heap) ==
    LET hook == dispatch(regs, "res", t)
    IN  IF hook = "sentinel_res_hook_factory"
        THEN sentinel_res_hook(t.arg, value, heap)
        ELSE IF hook = "sentinel_optional_res_hook_factory"
        THEN sentinel_optional_res_hook(t.arg, value, heap)
        ELSE IF hook = "annotated_structure_unwrap"
        THEN annotated_structure_unwrap(regs, value, t, heap)
        ELSE IF hook = "uuid_from_hex" THEN uuid_from_hex(value, heap)
        ELSE IF hook = "make_uuid_str" THEN make_uuid_str(value, heap)
        ELSE IF hook = "res_datetimes" THEN res_datetimes(value, heap)
        ELSE IF hook = "HTTPStatus(int(v))"
        THEN http_status_structure_hook(value, heap)
        ELSE IF hook = "json_mapstring_res" THEN json_mapstring_res(value, heap)
        ELSE IF hook = "dedupe_key_res_hook_factory"
        THEN dedupe_key_structure_hook(t.arg, value, heap)
        ELSE IF hook = "optional_string_structure_hook"
        THEN optional_string_structure_hook(value, heap)
        ELSE RaisedIn(StructureHandlerNotFoundError(t.arg), heap)

\* converter.unstructure(v), dispatched on the class of v; strings, None and
\* integers have no hook and pass through.
Converter_unstructure(regs, v) ==
    LET hook == dispatch(regs, "des", Class(v.cls))
    IN  IF hook = "sentinel_des_hook_factory"
        THEN Destructured(sentinel_des_hook(v))
        ELSE IF hook = "sentinel_optional_des_hook_factory"
        THEN Destructured(sentinel_optional_des_hook(v))
        ELSE IF hook = "des_exception_instance" THEN des_exception_instance(v)
        ELSE IF hook = "des_exception_type" THEN des_exception_type(v)
        ELSE IF hook = "unstructure_type_hook" THEN unstructure_type_hook(v)
        ELSE IF hook = "uuid_to_hex" THEN Destructured(uuid_to_hex(v))
        ELSE IF hook = "res_uuid_str" THEN Destructured(res_uuid_str(v))
        ELSE IF hook = "des_datetimes" THEN Destructured(des_datetimes(v))
        ELSE IF hook = "base_enum" THEN Destructured(base_enum(v))
        ELSE IF hook = "dedupe_key_des_hook_factory"
        THEN Destructured(PyStr(DedupeKeyMeta_str([cls |-> v.cls, key |-> v.s])))
        ELSE Destructured(v)

\* converter.unstructure of a dict: a new dict of the unstructured values
unstructure_mapping(regs, obj) ==
    [i \in 1..Len(obj) |->
        <<obj[i][1], Converter_unstructure(regs, obj[i][2]).out>>]

\* attr.has(cls): Foo is the attrs class of the model
AttrsClasses == {"Foo"}
attr_has(cls) == cls \in AttrsClasses

\* An attrs instance: its class and, for each field in declaration order,
\* the name, the metadata flags and the value held.  A class given in the
\* place of an instance has a metaclass for its class and no fields.
Field(name, omit, omit_if_default, val) ==
    [name |-> name, omit |-> omit, omit_if_default |-> omit_if_default,
     val |-> val]
NoInstance == [cls |-> "", fields |-> <<>>]
AttrsInstance(cls, fields) == [cls |-> cls, fields |-> fields]
AttrsClass(cls) == [cls |-> metaclass(cls), fields |-> <<>>]

\* What unstructuring an instance did: the dict returned or the error raised.
Dumped(out) == [out |-> out, err |-> NoConvError]
DumpRaised(err) == [out |-> <<>>, err |-> err]

\* _iter_by_metadata(cls), over the fields of obj whose class is cls:
\* TypeError for a class that is not an attrs class; a field flagged omit is
\* skipped; for a field flagged omit_if_default f.value is read, which an
\* attrs.Attribute does not have.
iter_by_metadata(obj) ==
    IF ~attr_has(obj.cls)
    THEN [fields |-> <<>>,
          err |-> PyError("TypeError", Unnamed, obj.cls, "")]
    ELSE IF \E i \in 1..Len(obj.fields) :
               ~obj.fields[i].omit /\ obj.fields[i].omit_if_default
    THEN [fields |-> <<>>, err |-> PyError("AttributeError", Unnamed, "", "")]
    ELSE [fields |-> SelectSeq(obj.fields, LAMBDA f : ~f.omit),
          err |-> NoConvError]

\* The function des_omit_factory(obj, conv) returns, called with args: it
\* takes no parameters, so a call with an argument raises TypeError before
\* its body runs; its body reads the fields of obj, not of an argument.
des_omit_hook(obj, regs, args) ==
    IF Len(args) # 0
    THEN DumpRaised(PyError("TypeError", Unnamed, "", ""))
    ELSE LET kept == iter_by_metadata(obj)
         IN  IF kept.err # NoConvError THEN DumpRaised(kept.err)
             ELSE Dumped([i \in 1..Len(kept.fields) |->
                            <<kept.fields[i].name,
                              Converter_unstructure(regs, kept.fields[i].val).out>>])

\* converter.unstructure(instance) of an attrs instance: the hook registered
\* for its class is called with the instance; register_attrs_hooks made it
\* with des_omit_factory(cls, conv), the class in the place of obj.
Converter_unstructure_instance(regs, instance) ==
    IF dispatch(regs, "des", Class(instance.cls)) = "des_omit_factory"
    THEN des_omit_hook(AttrsClass(instance.cls), regs, <<instance>>)
    ELSE Dumped([i \in 1..Len(instance.fields) |->
                   <<instance.fields[i].name,
                     Converter_unstructure(regs, instance.fields[i].val).out>>])

IsNotNone(pair) == pair[2] # PyNone
IsTruthy(pair) == pair[2] # PyNone /\ pair[2] # PyStr(<<>>)

\* What a serialisation did: the dict returned, the destructured record it
\* was made from and the caller's record afterwards.
Serialized(out, des, obj) == [out |-> out, des |-> des, obj |-> obj]

\* drop_none that keeps the truthy values only.
ModelConverter_drop_falsy(regs, obj, destruct) ==
    LET des == IF destruct THEN unstructure_mapping(regs, obj) ELSE obj
    IN  Serialized(SelectSeq(des, IsTruthy), des, obj)

\* ModelConverter.drop_none
ModelConverter_drop_none(regs, obj, destruct) ==
    LET des == IF destruct THEN unstructure_mapping(regs, obj) ELSE obj
    IN  Serialized(SelectSeq(des, IsNotNone), des, obj)

\* ModelConverter.replace_none_null
ModelConverter_replace_none_null(regs, obj, destruct) ==
    LET des == IF destruct THEN unstructure_mapping(regs, obj) ELSE obj
    IN  Serialized([i \in 1..Len(des) |->
                       <<des[i][1],
                         IF des[i][2] = PyNone THEN PyStr(NullString)
                         ELSE des[i][2]>>],
                   des, obj)

\* ModelConverter.serialize_attributes
ModelConverter_serialize_attributes(regs, obj, destruct, strategy) ==
    IF strategy = "drop_none" THEN ModelConverter_drop_none(regs, obj, destruct)
    ELSE ModelConverter_replace_none_null(regs, obj, destruct)

\* No converter operation has run.
NoOp ==
    [name |-> "None", arg |-> PyNone, arg2 |-> PyNone, target |-> NoType,
     hook |-> "", out |-> PyNone, err |-> NoConvError, at |-> 0]
NoSer ==
    [strategy |-> "", destruct |-> FALSE, out |-> <<>>, des |-> <<>>,
     obj |-> <<>>, given |-> <<>>]
NoLookup == {}
NoDumped ==
    [called |-> FALSE, regs |-> <<>>, instance |-> NoInstance, out |-> <<>>,
     err |-> NoConvError]

----------------------------------------------------------------------------
\* Inputs of the key derivation

NaturalKeys == StringsUpTo({"a", ":"}, MaxKeyLen)
DataValues == {<<>>, <<"x">>}
TraceIds == {<<"t">>}
RequestIds == {<<"r">>}

AllPairs ==
    {<<"natural_key", v>> : v \in NaturalKeys}
    \cup {<<"data", v>> : v \in DataValues}
    \cup {<<"trace_id", v>> : v \in TraceIds}
    \cup {<<"request_id", v>> : v \in RequestIds}

RECURSIVE KwargsOver(_, _)
\* Every keyword-argument dict of at most n of the pairs, in every order.
KwargsOver(pairs, n) ==
    IF n = 0 THEN {<<>>}
    ELSE LET fewer == KwargsOver(pairs, n - 1)
         IN  fewer \cup UNION {{Append(kw, p) :
                                   p \in {q \in pairs : ~HasKey(kw, q[1])}} :
                                 kw \in fewer}

Items(kwargs) == {kwargs[i] : i \in 1..Len(kwargs)}

----------------------------------------------------------------------------
\* The key derivation as a state machine: k1 is constructed from any
\* arguments, k2 from k1's arguments again (any of them, in any order) or from
\* k1's rendered string; k1 is destructured to the wire and structured back.

\* Nothing has been constructed yet.
Init ==
    /\ k1 = NoKey /\ in1 = <<>>
    /\ k2 = NoKey /\ in2 = <<>>
    /\ wire = NoneVal
    /\ parsed = NotParsed
    /\ now = 0
    /\ call = NoCall
    /\ inst = NoInst
    /\ raised = NoError
    /\ invoked = <<>>
    /\ read = NoRead
    /\ cleaned = NoCleaned
    /\ registry = <<>>
    /\ made = ImportedObjects
    /\ held = {OMITTED_DEFAULT, NOT_IMPLEMENTED}
    /\ op = NoOp
    /\ ser = NoSer
    /\ lookup = NoLookup
    /\ dumped = NoDumped

New1 ==
    /\ k1 = NoKey
    /\ \E cls \in DedupeKinds, kwargs \in KwargsOver(AllPairs, MaxArgs) :
          /\ k1' = DedupeKeyMeta_init(cls, kwargs)
          /\ in1' = kwargs
    /\ UNCHANGED <<k2, in2, wire, parsed>>
    /\ UNCHANGED <<stampVars, convVars>>

New2 ==
    /\ k1 # NoKey /\ k2 = NoKey /\ wire = NoneVal
    /\ \E cls \in DedupeKinds, kwargs \in KwargsOver(Items(in1), Len(in1)) :
          /\ k2' = DedupeKeyMeta_init(cls, kwargs)
          /\ in2' = kwargs
    /\ UNCHANGED <<k1, in1, wire, parsed>>
    /\ UNCHANGED <<stampVars, convVars>>

Unstructure ==
    /\ k1 # NoKey /\ k2 = NoKey /\ wire = NoneVal
    /\ wire' = dedupe_key_des_hook(k1)
    /\ UNCHANGED <<k1, in1, k2, in2, parsed>>
    /\ UNCHANGED <<stampVars, convVars>>

NewFromWire ==
    /\ wire # NoneVal /\ k2 = NoKey
    /\ \E cls \in DedupeKinds :
          /\ k2' = DedupeKeyMeta_init(cls, <<<<"natural_key", wire.s>>>>)
          /\ in2' = <<<<"natural_key", wire.s>>>>
    /\ UNCHANGED <<k1, in1, wire, parsed>>
    /\ UNCHANGED <<stampVars, convVars>>

Structure ==
    /\ wire # NoneVal /\ parsed = NotParsed
    /\ \E cls \in DedupeKinds, value \in {wire, KeyVal(k1), IntVal} :
          parsed' = dedupe_key_res_hook(cls, value)
    /\ UNCHANGED <<k1, in1, k2, in2, wire>>
    /\ UNCHANGED <<stampVars, convVars>>

NextDedupe == New1 \/ New2 \/ Unstructure \/ NewFromWire \/ Structure

SpecDedupe == Init /\ [][NextDedupe]_vars

----------------------------------------------------------------------------
\* Properties of the key derivation

NaturalKeyOf(kwargs) ==
    IF HasKey(kwargs, "natural_key") THEN ValueOf(kwargs, "natural_key") ELSE <<>>
HasColon(s) == \E i \in 1..Len(s) : s[i] = ":"
StartsWith(s, p) == Len(s) >= Len(p) /\ SubSeq(s, 1, Len(p)) = p
Rendered(s) == \E cls \in DedupeKinds : StartsWith(s, prefix(cls) \o <<":">>)

\* C1: two keys constructed without a natural key from the same set of
\* name/value pairs (trace_id, request_id, data), supplied in any two orders,
\* have the same key string.
C1_OrderIndependent ==
    (/\ k1 # NoKey /\ k2 # NoKey
     /\ ~HasKey(in1, "natural_key")
     /\ Items(in1) = Items(in2))
    => k1.key = k2.key

\* Three pairs given in two different orders have been turned into keys.
C1_Witness ==
    /\ k1 # NoKey /\ k2 # NoKey
    /\ ~HasKey(in1, "natural_key")
    /\ Len(in1) = 3 /\ Items(in1) = Items(in2) /\ in1 # in2
    /\ in1[1][1] = "trace_id" /\ in2[1][1] = "data"
    /\ k1.key = k2.key

\* C2: structuring the rendered string of k1 into k1's own kind gives a key
\* equal to k1.key.
C2_RoundTrip ==
    (/\ parsed.status = "ok"
     /\ parsed.value = StrVal(DedupeKeyMeta_str(k1))
     /\ parsed.target = k1.cls)
    => parsed.obj.key = k1.key

\* C3: with a non-empty natural key, the key is the same whatever other
\* fields come with it: k1 (natural key plus other fields) and k2 (the same
\* natural key with any of those fields, or alone) have the same key.
C3_NaturalKeyPrecedence ==
    (/\ k1 # NoKey /\ k2 # NoKey
     /\ NaturalKeyOf(in1) # <<>>
     /\ NaturalKeyOf(in2) = NaturalKeyOf(in1))
    => k1.key = k2.key

\* k1 has a natural key, data and a trace id; k2 has the natural key alone.
C3_Witness ==
    /\ k1 # NoKey /\ k2 # NoKey
    /\ NaturalKeyOf(in1) # <<>>
    /\ HasKey(in1, "data") /\ ValueOf(in1, "data") # <<>>
    /\ HasKey(in1, "trace_id")
    /\ in2 = <<<<"natural_key", NaturalKeyOf(in1)>>>>
    /\ k1.key = k2.key

KeyOfNaturalAsClaimed(nk, key) ==
    IF Rendered(nk)
    THEN \E cls \in DedupeKinds : nk = prefix(cls) \o <<":">> \o key
    ELSE key = nk

\* C4: a non-empty natural key that does not begin with a kind prefix and a
\* colon is the key verbatim; a rendered `<prefix>:<rest>` gives `<rest>`.
C4_Original ==
    /\ (k1 # NoKey /\ NaturalKeyOf(in1) # <<>>)
          => KeyOfNaturalAsClaimed(NaturalKeyOf(in1), k1.key)
    /\ (k2 # NoKey /\ NaturalKeyOf(in2) # <<>>)
          => KeyOfNaturalAsClaimed(NaturalKeyOf(in2), k2.key)

KeysInHand == {k \in {k1, k2, parsed.obj} : k # NoKey}
OtherValues == {wire, IntVal, NoneVal} \cup {StrVal(k.key) : k \in KeysInHand}

\* C5: two dedupe-key values of any kinds are equal iff their key strings
\* are equal, and a dedupe-key value equals no value of another type.
C5_EqualityByKey ==
    /\ \A a \in KeysInHand, b \in KeysInHand :
          DedupeKeyMeta_eq(a, KeyVal(b)) <=> (a.key = b.key)
    /\ \A a \in KeysInHand, v \in OtherValues : ~DedupeKeyMeta_eq(a, v)

\* A DedupeKey and an AlertKey with the same key compare equal, next to a
\* third key that differs from both.
C5_Witness ==
    /\ k1 # NoKey /\ k2 # NoKey /\ parsed.obj # NoKey
    /\ k1.cls # k2.cls
    /\ DedupeKeyMeta_eq(k1, KeyVal(k2))
    /\ ~DedupeKeyMeta_eq(k1, KeyVal(parsed.obj))
    /\ ~DedupeKeyMeta_eq(k1, wire)

----------------------------------------------------------------------------
\* Inputs of the stamped names

\* Table names: every short string of letters, digits and underscores, and
\* two longer ones that end the way a stamped name does.
Tables ==
    StringsUpTo({"a", "_", "1"}, MaxNameLen)
    \cup {<<"a", "_", "1">>, <<"a">> \o default_suffix}
CoreTables == {<<"a">>, <<"a", "_", "1">>}

TableInfosOf(tables) ==
    {NoTableInfo} \cup {TableInfo(<<"p">>, <<"d">>, t) : t \in tables}
TableIdsOf(tables) == {None} \cup {Some(t) : t \in tables}
FullNamesOf(tables) ==
    {None} \cup {Some(<<"p", ".", "d", ".">> \o t) : t \in tables}
\* Names that do not split into three segments, and the empty name.
MalformedFullNames ==
    {Some(<<>>), Some(<<"a">>), Some(<<"p", ".", "d">>),
     Some(<<"p", ".", "d", ".", "a", ".", "1">>)}

KwWith(infos, ids, fulls) ==
    [table_info : infos, project_id : {None, Some(<<"p">>)},
     dataset_id : {None, Some(<<"d">>)}, table_id : ids, full_table_name : fulls]

\* The keyword arguments of a call: any combination of the five, of which at
\* most one ranges over every table name.
KwSet ==
    KwWith(TableInfosOf(Tables), TableIdsOf(CoreTables), FullNamesOf(CoreTables))
    \cup KwWith(TableInfosOf(CoreTables), TableIdsOf(Tables), FullNamesOf(CoreTables))
    \cup KwWith(TableInfosOf(CoreTables), TableIdsOf(CoreTables),
               FullNamesOf(Tables) \cup MalformedFullNames)

StagingSuffixes == {None, Some(default_suffix), Some(<<"_", "t", "m", "p">>)}

----------------------------------------------------------------------------
\* The stamped names as a state machine: the clock advances, and at some
\* time a name of either kind is constructed from any arguments.

Tick ==
    /\ now < MaxClock
    /\ now' = now + 1
    /\ UNCHANGED <<call, inst, raised, invoked, read, cleaned>>
    /\ UNCHANGED <<dedupeVars, convVars>>

New(cls, staging_suffix, kw) ==
    LET outcome == Construct(cls, staging_suffix, kw, now)
    IN  /\ call' = [cls |-> cls, staging_suffix |-> staging_suffix, kw |-> kw,
                    at |-> now]
        /\ inst' = outcome.inst
        /\ raised' = outcome.err
        /\ invoked' = outcome.invoked
        /\ UNCHANGED <<now, read, cleaned>>
        /\ UNCHANGED <<dedupeVars, convVars>>

NewUtc ==
    /\ call = NoCall /\ ~cleaned.called
    /\ \E kw \in KwSet : New("UtcVersionStampedTableName", None, kw)

NewStaging ==
    /\ call = NoCall /\ ~cleaned.called
    /\ \E staging_suffix \in StagingSuffixes, kw \in KwSet :
          New("StagingTableName", staging_suffix, kw)

\* A caller's strategy, whose stamp or unstamp raises, is constructed.
NewRaising ==
    /\ call = NoCall /\ ~cleaned.called
    /\ \E cls \in RaisingKinds, kw \in KwSet : New(cls, None, kw)

\* Reads of the instance's stamped and unstamped made so far and allowed
MaxReads == 2

\* self.stamped is read on the instance.
ReadStamped ==
    /\ inst # NoInst /\ read.n < MaxReads
    /\ LET r == VersionStampedName_stamped(inst, now)
       IN  /\ read' = [n |-> read.n + 1, attr |-> "stamped", value |-> r.value]
           /\ invoked' = invoked \o r.invoked
    /\ UNCHANGED <<now, call, inst, raised, cleaned>>
    /\ UNCHANGED <<dedupeVars, convVars>>

\* self.unstamped is read on the instance.
ReadUnstamped ==
    /\ inst # NoInst /\ read.n < MaxReads
    /\ LET r == VersionStampedName_unstamped(inst, now)
       IN  /\ read' = [n |-> read.n + 1, attr |-> "unstamped", value |-> r.value]
           /\ invoked' = invoked \o r.invoked
    /\ UNCHANGED <<now, call, inst, raised, cleaned>>
    /\ UNCHANGED <<dedupeVars, convVars>>

\* The strings given to unstamp directly
CleanerInputs == StringsUpTo({"a", "_", "1"}, MaxNameLen + 1)

\* UtcVersionStampedTableName.unstamp(name) is called on any string.
CallUnstamp ==
    /\ call = NoCall /\ ~cleaned.called
    /\ \E table_name \in CleanerInputs :
          cleaned' = [called |-> TRUE, name |-> table_name,
                      out |-> unstamp("UtcVersionStampedTableName", table_name)]
    /\ UNCHANGED <<now, call, inst, raised, invoked, read>>
    /\ UNCHANGED <<dedupeVars, convVars>>

NextStamp ==
    \/ Tick \/ NewUtc \/ NewStaging \/ NewRaising
    \/ ReadStamped \/ ReadUnstamped \/ CallUnstamp

SpecStamp == Init /\ [][NextStamp]_vars

----------------------------------------------------------------------------
\* Properties of the stamped names

\* Whether the arguments name a table: a handle, the three parts, or a
\* fully-qualified name of three segments.
Resolvable(kw) ==
    \/ kw.table_info.some
    \/ Truthy(kw.project_id) /\ Truthy(kw.dataset_id) /\ Truthy(kw.table_id)
    \/ /\ Truthy(kw.full_table_name)
       /\ Cardinality({i \in 1..Len(kw.full_table_name.s) :
                         kw.full_table_name.s[i] = "."}) = 2

\* The parts of the table the arguments name, by the precedence handle,
\* three parts, fully-qualified name.
ExpectedParts(kw) ==
    IF kw.table_info.some
    THEN <<kw.table_info.project_id, kw.table_info.dataset_id, kw.table_info.table_id>>
    ELSE IF Truthy(kw.project_id) /\ Truthy(kw.dataset_id) /\ Truthy(kw.table_id)
    THEN <<kw.project_id.s, kw.dataset_id.s, kw.table_id.s>>
    ELSE Split(kw.full_table_name.s, ".")
ExpectedRaw(kw) == Join(ExpectedParts(kw), ".")
ExpectedTable(kw) == Last(ExpectedParts(kw))

EndsInUnderscoreDigits(s) ==
    \E i \in 1..(Len(s) - 1) :
        s[i] = "_" /\ \A j \in (i + 1)..Len(s) : s[j] \in Digits
EndsWith(s, suffix) ==
    Len(s) >= Len(suffix) /\ SubSeq(s, Len(s) - Len(suffix) + 1, Len(s)) = suffix

\* C6: for every table identifier that resolves and whose table name does
\* not end in `_<digits>`, constructing a UtcVersionStampedTableName succeeds
\* and unstamp(stamp(raw)) = raw.
C6_UtcRoundTrip ==
    (/\ call.cls = "UtcVersionStampedTableName"
     /\ Resolvable(call.kw)
     /\ ~EndsInUnderscoreDigits(ExpectedTable(call.kw)))
    => /\ inst.cls = "UtcVersionStampedTableName"
       /\ raised = NoError
       /\ inst.unstamped = ExpectedRaw(call.kw)

\* C7: for every table identifier that resolves, constructing a
\* StagingTableName succeeds, stamped is `project.dataset.table` followed by
\* `_staging` and unstamped is `project.dataset.table`.
C7_StagingRoundTrip ==
    (call.cls = "StagingTableName" /\ Resolvable(call.kw))
    => /\ inst.cls = "StagingTableName"
       /\ raised = NoError
       /\ inst.stamped = ExpectedRaw(call.kw) \o default_suffix
       /\ inst.unstamped = ExpectedRaw(call.kw)

\* A staging name was constructed for a table that itself ends in `_staging`.
C7_Witness ==
    /\ call.cls = "StagingTableName"
    /\ ~call.kw.table_info.some /\ Truthy(call.kw.table_id)
    /\ EndsWith(ExpectedTable(call.kw), default_suffix)
    /\ inst.cls = "StagingTableName"
    /\ inst.unstamped = ExpectedRaw(call.kw)
    /\ EndsWith(inst.stamped, default_suffix \o default_suffix)

\* C8: a construction either raises and returns no instance, or returns an
\* instance; every instance there is satisfies unstamp(stamped) = raw.
C8_InstanceRoundTrips ==
    /\ call.cls # "None" => ((inst = NoInst) # (raised = NoError))
    /\ inst # NoInst
         => /\ inst.unstamped = VersionStampedName_raw(inst)
            /\ unstamp(inst.cls, inst.stamped) = VersionStampedName_raw(inst)

\* A construction has returned an instance, and the clock has advanced since.
C8_Witness ==
    /\ now > call.at
    /\ inst # NoInst /\ raised = NoError
    /\ inst.stamped # VersionStampedName_raw(inst)
    /\ inst.unstamped = VersionStampedName_raw(inst)

\* C9: constructing a UtcVersionStampedTableName for a table whose name ends
\* in `_<digits>` raises VersionStampError and returns no instance.
C9_AmbiguousRaises ==
    (/\ call.cls = "UtcVersionStampedTableName"
     /\ Resolvable(call.kw)
     /\ EndsInUnderscoreDigits(ExpectedTable(call.kw)))
    => raised.type = "VersionStampError" /\ inst = NoInst

\* Such a construction, from a fully-qualified name, has raised.
C9_Witness ==
    /\ call.cls = "UtcVersionStampedTableName"
    /\ call.kw.full_table_name = Some(<<"p", ".", "d", ".", "a", "_", "1">>)
    /\ ~call.kw.table_info.some /\ ~Truthy(call.kw.table_id)
    /\ raised.type = "VersionStampError"
    /\ raised.raw_name = <<"p", ".", "d", ".", "a", "_", "1">>

\* C10: a VersionStampError raised because unstamped # raw carries
\* raw_name = raw, stamped_name = stamp(raw) and
\* unstamped_name = unstamp(stamp(raw)).
C10_ErrorFields ==
    raised.type = "VersionStampError"
    => /\ raised.raw_name = ExpectedRaw(call.kw)
       /\ raised.stamped_name = stamp(call.cls, ExpectedRaw(call.kw), call.at)
       /\ raised.unstamped_name = unstamp(call.cls, raised.stamped_name)

\* C11: when the strategy's stamp or unstamp raises during a construction
\* whose table identifier resolves, the construction raises VersionStampError
\* whose field of the failing computation holds the placeholder string; the
\* strategy's own exception is not what the construction raises.
C11_StrategyErrorWrapped ==
    (call.cls \in RaisingKinds /\ Resolvable(call.kw))
    => /\ raised.type = "VersionStampError"
       /\ inst = NoInst
       /\ stamp_raises(call.cls)
            => raised.stamped_name = Placeholder(stamped_name_key)
       /\ unstamp_raises(call.cls)
            => raised.unstamped_name = Placeholder(unstamped_name_key)

\* C12: a construction whose arguments resolve no table identifier raises
\* TableIdentifierError carrying project_id, dataset_id, table_id,
\* full_table_name and table_info as given, returns no instance and has
\* invoked neither stamp nor unstamp.
C12_UnresolvedRaises ==
    (call.cls # "None" /\ ~Resolvable(call.kw))
    => /\ raised.type = "TableIdentifierError"
       /\ raised.args = <<call.kw.project_id, call.kw.dataset_id,
                          call.kw.table_id, call.kw.full_table_name,
                          call.kw.table_info>>
       /\ inst = NoInst
       /\ invoked = <<>>

\* A construction given two of the three parts and a fully-qualified name of
\* two segments has raised TableIdentifierError.
C12_Witness ==
    /\ call.cls # "None"
    /\ ~call.kw.table_info.some
    /\ Truthy(call.kw.project_id) /\ Truthy(call.kw.dataset_id)
    /\ ~Truthy(call.kw.table_id)
    /\ call.kw.full_table_name = Some(<<"p", ".", "d">>)
    /\ raised.type = "TableIdentifierError"
    /\ raised.args[4] = Some(<<"p", ".", "d">>)
    /\ invoked = <<>>

\* C13: the UTC stamp of a fully-qualified name leaves every segment but the
\* last unchanged and appends to the last segment `_` followed by a 14-digit
\* timestamp, so that what follows the underscore is digits only.
C13_UtcStampDigits ==
    (call.cls = "UtcVersionStampedTableName" /\ Resolvable(call.kw))
    => LET raw == Split(ExpectedRaw(call.kw), ".")
           stamped == Split(IF inst # NoInst THEN inst.stamped
                            ELSE raised.stamped_name, ".")
           table == Last(raw)
           last == Last(stamped)
       IN  /\ Len(stamped) = Len(raw)
           /\ \A i \in 1..(Len(raw) - 1) : stamped[i] = raw[i]
           /\ Len(last) = Len(table) + 15
           /\ SubSeq(last, 1, Len(table) + 1) = table \o <<"_">>
           /\ \A j \in (Len(table) + 2)..Len(last) : last[j] \in Digits

\* The record the key is said to hash: the auxiliary fields, with
\* payload_hash when data is given.
ClaimedRecord(kwargs) ==
    LET aux == SelectSeq(kwargs, LAMBDA kv : kv[1] \in {"trace_id", "request_id"})
    IN  IF HasKey(kwargs, "data")
        THEN <<<<"payload_hash", hash_bytes(ValueOf(kwargs, "data"))>>>> \o aux
        ELSE aux

\* C24: a key constructed without a non-empty natural key is the hash of the
\* canonical form of the record of the auxiliary fields, together with
\* payload_hash = hash(data) whenever data is given, be it empty; the record
\* holds neither the data nor a natural_key entry.
C24_HashedRecord ==
    (/\ k1 # NoKey
     /\ ~(HasKey(in1, "natural_key") /\ ValueOf(in1, "natural_key") # <<>>))
    => k1.key = hash_bytes(JsonDumpsSorted(ClaimedRecord(in1)))

\* C25: UtcVersionStampedTableName.unstamp returns, for a string that ends
\* in an underscore followed by one or more digits, the string without that
\* ending, and for every other string the failed marker.
C25_CleanerReference ==
    cleaned.called
    => cleaned.out =
         IF EndsInUnderscoreDigits(cleaned.name)
         THEN LET i == CHOOSE i \in 1..(Len(cleaned.name) - 1) :
                         /\ cleaned.name[i] = "_"
                         /\ \A j \in (i + 1)..Len(cleaned.name) :
                               cleaned.name[j] \in Digits
              IN  SubSeq(cleaned.name, 1, i - 1)
         ELSE FAILED_OP

Count(seq, x) == Cardinality({i \in 1..Len(seq) : seq[i] = x})

\* C26: over the construction of an instance and every later read, stamp
\* and unstamp are each invoked at most once; every read of stamped returns
\* the value that was unstamped during validation, every read of unstamped
\* the value validation compared with raw, whatever the clock reads.
C26_ComputedOnce ==
    inst # NoInst
    => /\ Count(invoked, "stamp") <= 1 /\ Count(invoked, "unstamp") <= 1
       /\ inst.unstamped = unstamp(inst.cls, inst.stamped)
       /\ read.attr = "stamped" => read.value = inst.stamped
       /\ read.attr = "unstamped" => read.value = inst.unstamped

\* An instance has been read MaxReads times, last its stamped, after the
\* clock advanced.
C26_Witness ==
    /\ inst # NoInst /\ now > call.at
    /\ read.n = MaxReads /\ read.attr = "stamped"
    /\ read.value = inst.stamped
    /\ invoked = <<"stamp", "unstamp">>

\* C30: a StagingTableName constructed with any staging_suffix for a table
\* identifier that resolves has the stamped and unstamped values it has
\* when constructed without one: raw followed by `_staging`, and raw.
C30_SuffixIgnored ==
    (call.cls = "StagingTableName" /\ Resolvable(call.kw))
    => LET plain == Construct("StagingTableName", None, call.kw, call.at)
       IN  /\ raised = NoError /\ plain.err = NoError
           /\ inst.stamped = plain.inst.stamped
           /\ inst.unstamped = plain.inst.unstamped
           /\ inst.stamped = VersionStampedName_raw(inst) \o default_suffix

\* A StagingTableName was constructed with the suffix `_tmp`.
C30_Witness ==
    /\ call.cls = "StagingTableName"
    /\ call.staging_suffix = Some(<<"_", "t", "m", "p">>)
    /\ inst.suffix = <<"_", "t", "m", "p">>
    /\ inst.stamped = VersionStampedName_raw(inst) \o default_suffix
    /\ raised = NoError

----------------------------------------------------------------------------
\* Inputs of the converter

\* Registrations made by hand on one converter
MaxRegs == 3
\* Objects there can be before an operation: the two imported and those made
MaxMade == 4
\* Fields of a record given to serialize_attributes
MaxFields == 2

\* The registrations a caller makes by hand: a hook for a class, or a hook
\* (factory) under a predicate.
HandRegistrations ==
    {Reg("res", "exact", cls, hook) :
        cls \in {"NotImplementSentinel", "SentinelMeta", "UUID"},
        hook \in {"uuid_from_hex", "make_uuid_str"}}
    \cup {Reg("res", "pred", pred, hook) :
            pred \in {"is_sentinel", "is_annotated"},
            hook \in {"sentinel_res_hook_factory",
                      "sentinel_optional_res_hook_factory"}}

ResolvedTypes ==
    {Class("NotImplementSentinel"), Class("OmittedDefaultSentinel"),
     Class("UUID"), Annotated("UUID")}

OptionalString == "str | None"

StructureTargets ==
    {Class(cls) : cls \in SentinelClasses}
    \cup {Annotated(cls) : cls \in SentinelClasses}
    \cup {Class(cls) : cls \in DedupeKinds}
    \cup {Class("UUID"), Class("UUID_Str"), Class("datetime"),
          Class("HTTPStatus"), Class("JSON_MapString"),
          Union(OptionalString), Annotated("UUID")}

\* The digits of 11111111-1111-4111-8111-111111111111 and of
\* a1111111-1111-4111-8111-111111111111
UuidHex ==
    [i \in 1..32 |-> IF i = 13 THEN "4" ELSE IF i = 17 THEN "8" ELSE "1"]
UuidHexA == [UuidHex EXCEPT ![1] = "a"]
\* The canonical text of the first, and the second written in upper case
UuidText ==
    [i \in 1..36 |->
        IF i \in {9, 14, 19, 24} THEN "-"
        ELSE IF i = 15 THEN "4" ELSE IF i = 20 THEN "8" ELSE "1"]
UuidTextUpper == [UuidText EXCEPT ![1] = "A"]

IsoText ==
    <<"2", "0", "2", "5", "-", "0", "1", "-", "0", "2", "T",
      "0", "3", ":", "0", "4", ":", "0", "5">>
IsoTextSpace == [IsoText EXCEPT ![11] = " "]

\* What is structured besides the sentinels' values: integers, a float,
\* texts each hook parses and texts none parses, and objects of the target
\* classes.
OtherStructureValues ==
    {PyInteger(<<"2", "0", "0">>), PyFloat(<<"2", "0", "0", ".", "7">>),
     PyStr(UuidText), PyStr(UuidTextUpper),
     PyStr(IsoText), PyStr(IsoTextSpace),
     PyStr(<<"2", "0", "0">>), PyStr(EmptyObjectText),
     PyStr(<<"{", " ", "}">>), PyStr(EmptyArrayText),
     PyStr(<<" ">>), PyStr(OmittedString), PyStr(<<"d", ":", "a">>),
     PyUUID(UuidHex), [cls |-> "UUID_Str", s |-> UuidHex, id |-> 0],
     [cls |-> "datetime", s |-> IsoText, id |-> 0],
     PyDict(EmptyObjectText),
     PyDedupeKey([cls |-> "DedupeKey", key |-> <<"a">>]),
     [cls |-> "HTTPStatus", s |-> <<"2", "0", "0">>, id |-> 0]}

\* What is structured: a sentinel instance, None, an integer, a string (a
\* label, a spelling of null, or another) or a sentinel class itself.
StructureValues(instances) ==
    instances \cup {PyNone, PyInt}
    \cup {PyStr(SentinelMeta_value(cls)) : cls \in SentinelClasses}
    \cup {PyStr(NullString), PyStr(NoneString), PyStr(<<"N", "U", "L", "L">>),
          PyStr(<<>>), PyStr(<<"a">>)}
    \cup {PyClass(cls) : cls \in SentinelClasses}
    \cup OtherStructureValues

\* What is unstructured besides the sentinels: exceptions and exception
\* classes, sentinel classes, another class, spellings of null, another
\* string, an integer, None, and objects that have a hook.
UnstructureValues ==
    {PyException(cls, <<"b", "a", "d">>) : cls \in {"ValueError", "Exception"}}
    \cup {PyClass(cls) : cls \in ExceptionClasses \cup SentinelClasses \cup {"int"}}
    \cup {PyStr(NullString), PyStr(<<"N", "U", "L", "L">>), PyStr(<<"a">>),
          PyInt, PyNone, PyUUID(UuidHex),
          [cls |-> "UUID_Str", s |-> UuidHexA, id |-> 0],
          [cls |-> "datetime", s |-> IsoText, id |-> 0],
          [cls |-> "HTTPStatus", s |-> <<"2", "0", "0">>, id |-> 0],
          PyDedupeKey([cls |-> "AlertKey", key |-> <<"a">>])}

FieldNames == <<"a", "b", "c", "d">>

\* The attrs instances: at most MaxFields fields, each flagged or not and
\* holding one of a few values.
InstanceFieldValues == {PyNone, PyStr(<<"x">>), NOT_IMPLEMENTED}
FieldsAt(i) ==
    {Field(FieldNames[i], omit, omit_if_default, val) :
        omit \in BOOLEAN, omit_if_default \in BOOLEAN,
        val \in InstanceFieldValues}
RECURSIVE FieldSeqs(_)
FieldSeqs(n) ==
    IF n = 0 THEN {<<>>}
    ELSE FieldSeqs(n - 1)
         \cup {Append(fs, f) : fs \in {g \in FieldSeqs(n - 1) : Len(g) = n - 1},
                               f \in FieldsAt(n)}
Instances == {AttrsInstance("Foo", fs) : fs \in FieldSeqs(MaxFields)}

\* The lookups made after a conversion: a direction and a type
Lookups ==
    {<<"res", Class("UUID")>>, <<"res", Annotated("UUID")>>,
     <<"res", Class("NotImplementSentinel")>>, <<"res", Union(OptionalString)>>,
     <<"res", Class("Foo")>>, <<"des", Class("Foo")>>,
     <<"des", Class("HTTPStatus")>>, <<"des", Class("datetime")>>,
     <<"des", Class("JSON_MapString")>>, <<"des", Class("tuple")>>}

FieldValues ==
    {PyNone, PyStr(NullString), PyStr(<<>>), PyStr(<<"x">>), NOT_IMPLEMENTED}
FieldPairs ==
    {<<FieldNames[i], v>> : i \in 1..MaxFields, v \in FieldValues}
\* The records (dicts, in insertion order) of at most MaxFields fields
Records == KwargsOver(FieldPairs, MaxFields)

PyBool(b) == [cls |-> "bool", s |-> <<IF b THEN "True" ELSE "False">>, id |-> 0]

----------------------------------------------------------------------------
\* The converter as a state machine: hooks are registered, by get_converter
\* or by hand; then a hook is resolved, or, on get_converter's converter,
\* sentinels are made, compared, unstructured and structured and records
\* serialised.

Built == registry = get_converter

GetConverter ==
    /\ registry = <<>> /\ op = NoOp /\ ser = NoSer /\ ~dumped.called
    /\ registry' = get_converter
    /\ UNCHANGED <<made, held, op, ser, lookup, dumped>>
    /\ UNCHANGED <<dedupeVars, stampVars>>

RegisterHook ==
    /\ Len(registry) < MaxRegs /\ op = NoOp /\ ~dumped.called
    /\ \E r \in HandRegistrations : registry' = Append(registry, r)
    /\ UNCHANGED <<made, held, op, ser, lookup, dumped>>
    /\ UNCHANGED <<dedupeVars, stampVars>>

ResolveHook ==
    /\ op = NoOp /\ ser = NoSer /\ ~dumped.called
    /\ \E t \in ResolvedTypes :
          op' = [NoOp EXCEPT !.name = "dispatch", !.target = t,
                             !.hook = dispatch(registry, "res", t),
                             !.at = made]
    /\ UNCHANGED <<registry, made, held, ser, lookup, dumped>>
    /\ UNCHANGED <<dedupeVars, stampVars>>

MakeSentinel ==
    /\ Built /\ op = NoOp /\ ser = NoSer
    /\ made < MaxMade
    /\ \E cls \in SentinelClasses :
          /\ held' = held \cup {SentinelMeta_make(cls, made)}
          /\ made' = made + 1
    /\ UNCHANGED <<registry, op, ser, lookup, dumped>>
    /\ UNCHANGED <<dedupeVars, stampVars>>

Compare ==
    /\ Built /\ op = NoOp /\ ser = NoSer
    /\ \E a \in held, b \in held :
          op' = [NoOp EXCEPT !.name = "eq", !.arg = a, !.arg2 = b,
                             !.out = PyBool(PyEq(a, b)), !.at = made]
    /\ UNCHANGED <<registry, made, held, ser, lookup, dumped>>
    /\ UNCHANGED <<dedupeVars, stampVars>>

UnstructureSentinel ==
    /\ Built /\ op = NoOp /\ ser = NoSer
    /\ \E v \in held :
          op' = [NoOp EXCEPT !.name = "unstructure", !.arg = v,
                             !.hook = dispatch(registry, "des", Class(v.cls)),
                             !.out = Converter_unstructure(registry, v).out,
                             !.err = Converter_unstructure(registry, v).err,
                             !.at = made]
    /\ UNCHANGED <<registry, made, held, ser, lookup, dumped>>
    /\ UNCHANGED <<dedupeVars, stampVars>>

\* What was unstructured is structured back into the class it came from.
StructureBack ==
    /\ op.name = "unstructure" /\ lookup = NoLookup
    /\ LET t == Class(op.arg.cls)
           r == Converter_structure(registry, op.out, t, made)
       IN  /\ op' = [name |-> "round_trip", arg |-> op.arg, arg2 |-> op.out,
                     target |-> t, hook |-> dispatch(registry, "res", t),
                     out |-> r.out, err |-> r.err, at |-> made]
           /\ made' = r.heap
    /\ UNCHANGED <<registry, held, ser, lookup, dumped>>
    /\ UNCHANGED <<dedupeVars, stampVars>>

\* A structure that registers the hook it resolved under the class of the
\* value it was given.
StructureValue_registering ==
    /\ Built /\ op = NoOp /\ ser = NoSer
    /\ \E v \in StructureValues(held), t \in StructureTargets :
          LET r == Converter_structure(registry, v, t, made)
          IN  /\ op' = [name |-> "structure", arg |-> v, arg2 |-> PyNone,
                        target |-> t, hook |-> dispatch(registry, "res", t),
                        out |-> r.out, err |-> r.err, at |-> made]
              /\ made' = r.heap
              /\ registry' = Append(registry,
                                    Reg("res", "exact", v.cls,
                                        dispatch(registry, "res", t)))
    /\ UNCHANGED <<held, ser, lookup, dumped>>
    /\ UNCHANGED <<dedupeVars, stampVars>>

StructureValue ==
    /\ Built /\ op = NoOp /\ ser = NoSer
    /\ \E v \in StructureValues(held), t \in StructureTargets :
          LET r == Converter_structure(registry, v, t, made)
          IN  /\ op' = [name |-> "structure", arg |-> v, arg2 |-> PyNone,
                        target |-> t, hook |-> dispatch(registry, "res", t),
                        out |-> r.out, err |-> r.err, at |-> made]
              /\ made' = r.heap
    /\ UNCHANGED <<registry, held, ser, lookup, dumped>>
    /\ UNCHANGED <<dedupeVars, stampVars>>

SerializeAttributes ==
    /\ Built /\ op = NoOp /\ ser = NoSer
    /\ \E obj \in Records, destruct \in BOOLEAN,
          strategy \in {"drop_none", "replace_none_null"} :
          LET r == ModelConverter_serialize_attributes(registry, obj, destruct,
                                                       strategy)
          IN  ser' = [strategy |-> strategy, destruct |-> destruct,
                      out |-> r.out, des |-> r.des, obj |-> r.obj,
                      given |-> obj]
    /\ UNCHANGED <<registry, made, held, op, lookup, dumped>>
    /\ UNCHANGED <<dedupeVars, stampVars>>

\* A value that is no sentinel instance is unstructured.
UnstructureValue ==
    /\ Built /\ op = NoOp /\ ser = NoSer
    /\ \E v \in UnstructureValues :
          op' = [NoOp EXCEPT !.name = "unstructure_value", !.arg = v,
                             !.hook = dispatch(registry, "des", Class(v.cls)),
                             !.out = Converter_unstructure(registry, v).out,
                             !.err = Converter_unstructure(registry, v).err,
                             !.at = made]
    /\ UNCHANGED <<registry, made, held, ser, lookup, dumped>>
    /\ UNCHANGED <<dedupeVars, stampVars>>

\* A conversion has been called on the converter.
Converted ==
    \/ op.name \in {"structure", "unstructure", "unstructure_value", "round_trip"}
    \/ ser # NoSer
    \/ dumped.called

\* After a conversion, the hook of each type is resolved, in each direction.
ResolveAfter ==
    /\ Converted /\ lookup = NoLookup
    /\ lookup' = {[dir |-> l[1], target |-> l[2],
                   hook |-> dispatch(registry, l[1], l[2])] : l \in Lookups}
    /\ UNCHANGED <<registry, made, held, op, ser, dumped>>
    /\ UNCHANGED <<dedupeVars, stampVars>>

\* register_attrs_hooks(conv, Foo), on a new converter or on get_converter's,
\* before or after jsonify_sequences_des
RegisterAttrsHooks ==
    /\ \E base \in {<<>>, get_converter} :
          registry \in {base, base \o jsonify_sequences_des}
    /\ op = NoOp /\ ser = NoSer /\ ~dumped.called
    /\ registry' = registry \o register_attrs_hooks_for("Foo")
    /\ UNCHANGED <<made, held, op, ser, lookup, dumped>>
    /\ UNCHANGED <<dedupeVars, stampVars>>

\* jsonify_sequences_des(conv), on a new converter or on get_converter's,
\* before or after register_attrs_hooks(conv, Foo)
JsonifySequencesDes ==
    /\ \E base \in {<<>>, get_converter} :
          registry \in {base, base \o register_attrs_hooks_for("Foo")}
    /\ op = NoOp /\ ser = NoSer /\ ~dumped.called
    /\ registry' = registry \o jsonify_sequences_des
    /\ UNCHANGED <<made, held, op, ser, lookup, dumped>>
    /\ UNCHANGED <<dedupeVars, stampVars>>

\* conv.unstructure(instance), Foo's hooks being registered
UnstructureInstance ==
    /\ dispatch(registry, "des", Class("Foo")) = "des_omit_factory"
    /\ op = NoOp /\ ser = NoSer /\ ~dumped.called
    /\ \E instance \in Instances :
          LET r == Converter_unstructure_instance(registry, instance)
          IN  dumped' = [called |-> TRUE, regs |-> registry,
                         instance |-> instance,
                         out |-> r.out, err |-> r.err]
    /\ UNCHANGED <<registry, made, held, op, ser, lookup>>
    /\ UNCHANGED <<dedupeVars, stampVars>>

NextConv ==
    \/ GetConverter \/ RegisterHook \/ ResolveHook
    \/ MakeSentinel \/ Compare \/ UnstructureSentinel \/ StructureBack
    \/ StructureValue \/ SerializeAttributes
    \/ UnstructureValue \/ ResolveAfter
    \/ RegisterAttrsHooks \/ JsonifySequencesDes \/ UnstructureInstance

SpecConv == Init /\ [][NextConv]_vars

----------------------------------------------------------------------------
\* Properties of the sentinels and the converter

\* C14: two sentinel instances compare equal exactly when they are of the
\* same sentinel subtype, for OmittedDefaultSentinel as for
\* NotImplementSentinel, also when they come from separate make() calls.
C14_EqualBySubtype ==
    op.name = "eq"
    => (op.out = PyBool(TRUE) <=> op.arg.cls = op.arg2.cls)

\* C15: unstructuring a sentinel s of subtype S gives S's label, and
\* structuring that label into S gives an instance equal to s: for
\* OmittedDefaultSentinel, the constant made at import itself.
C15_SentinelRoundTrip ==
    op.name = "round_trip"
    => /\ op.arg2 = PyStr(SentinelMeta_value(op.arg.cls))
       /\ op.err = NoConvError
       /\ op.out.cls = op.arg.cls
       /\ PyEq(op.out, op.arg)
       /\ op.arg.cls = "OmittedDefaultSentinel" => op.out = OMITTED_DEFAULT

\* C16: on get_converter's converter, structuring into a sentinel subtype S
\* returns an S sentinel for S's label, for the class S itself and for an
\* instance of S, returns None for None, "null" and "none", and raises the
\* conversion error for every other value.
C16_SentinelAccepts ==
    (/\ op.name = "structure" /\ get_origin(op.target) = "class"
     /\ op.target.arg \in SentinelClasses)
    => IF \/ op.arg = PyStr(SentinelMeta_value(op.target.arg))
          \/ op.arg = PyClass(op.target.arg)
          \/ op.arg.cls = op.target.arg
       THEN op.err = NoConvError /\ op.out.cls = op.target.arg
       ELSE IF op.arg \in {PyNone, PyStr(NullString), PyStr(NoneString)}
       THEN op.err = NoConvError /\ op.out = PyNone
       ELSE op.err.type = "TypeError" /\ op.err.value = op.arg

\* C17: when a hook is registered for exactly the type resolved, resolution
\* returns the hook last registered for that type, whatever predicates that
\* match the type were registered before or after it.
C17_ExactTypeWins ==
    (/\ op.name = "dispatch" /\ get_origin(op.target) = "class"
     /\ ExactFor(registry, "res", op.target.arg) # {})
    => op.hook = registry[SetMax(ExactFor(registry, "res", op.target.arg))].hook

\* A hook for NotImplementSentinel was registered, then a matching predicate
\* with another hook, and the hook for the class was resolved.
C17_Witness ==
    /\ op.name = "dispatch" /\ op.target = Class("NotImplementSentinel")
    /\ Len(registry) = 2
    /\ registry[1].kind = "exact" /\ registry[1].target = "NotImplementSentinel"
    /\ registry[2].kind = "pred" /\ registry[2].target = "is_sentinel"
    /\ op.hook = registry[1].hook

\* C18: when no hook is registered for the type resolved or a class it
\* derives from, resolution returns the hook of the matching predicate
\* registered last; on get_converter's converter that is the optional
\* sentinel hook, for every sentinel subtype.
C18_LastPredicateWins ==
    (/\ op.name = "dispatch"
     /\ single_dispatch(registry, "res", op.target) = 0
     /\ \E i \in 1..Len(registry) :
           /\ registry[i].dir = "res" /\ registry[i].kind = "pred"
           /\ Matches(registry[i].target, op.target))
    => /\ \E i \in 1..Len(registry) :
             /\ registry[i].dir = "res" /\ registry[i].kind = "pred"
             /\ Matches(registry[i].target, op.target)
             /\ op.hook = registry[i].hook
             /\ \A j \in (i + 1)..Len(registry) :
                   ~(/\ registry[j].dir = "res" /\ registry[j].kind = "pred"
                     /\ Matches(registry[j].target, op.target))
       /\ (Built /\ op.target.arg \in SentinelClasses)
            => op.hook = "sentinel_optional_res_hook_factory"

\* On get_converter's converter the hook of a sentinel subtype was resolved.
C18_Witness ==
    /\ Built /\ op.name = "dispatch"
    /\ op.target = Class("OmittedDefaultSentinel")
    /\ op.hook = "sentinel_optional_res_hook_factory"

PairsOf(rec) == {rec[i] : i \in 1..Len(rec)}

\* C19: with drop_none the result holds exactly the pairs of the
\* destructured record whose value is not None, unchanged; with
\* replace_none_null it has the keys of the destructured record, None
\* replaced by "null" and the other values unchanged; the record given is as
\* it was.
C19_SerializeAttributes ==
    ser # NoSer
    => /\ ser.strategy = "drop_none"
            => /\ PairsOf(ser.out) = {p \in PairsOf(ser.des) : p[2] # PyNone}
               /\ Len(ser.out) = Cardinality(PairsOf(ser.out))
       /\ ser.strategy = "replace_none_null"
            => /\ Len(ser.out) = Len(ser.des)
               /\ \A i \in 1..Len(ser.des) :
                     /\ ser.out[i][1] = ser.des[i][1]
                     /\ ser.out[i][2] = IF ser.des[i][2] = PyNone
                                        THEN PyStr(NullString)
                                        ELSE ser.des[i][2]
       /\ ser.obj = ser.given

\* drop_none was given a record with a None and an empty string, and
\* returned the empty string only.
C19_Witness ==
    /\ ser.strategy = "drop_none"
    /\ ser.given = <<<<"a", PyNone>>, <<"b", PyStr(<<>>)>>>>
    /\ ser.out = <<<<"b", PyStr(<<>>)>>>>
    /\ ser.obj = ser.given

\* C20: structuring a value into Annotated[T, ...] returns what structuring
\* it into T returns, or raises what that raises.
C20_AnnotatedPassthrough ==
    (op.name = "structure" /\ get_origin(op.target) = "Annotated")
    => LET direct == Converter_structure(registry, op.arg,
                                         Class(op.target.arg), op.at)
       IN  /\ op.out = direct.out
           /\ op.err = direct.err
           /\ made = direct.heap

\* The label was structured into Annotated[NotImplementSentinel, ...] by the
\* unwrap hook, and a new sentinel returned.
C20_Witness ==
    /\ op.name = "structure"
    /\ op.target = Annotated("NotImplementSentinel")
    /\ op.hook = "annotated_structure_unwrap"
    /\ op.arg = PyStr(SentinelMeta_value("NotImplementSentinel"))
    /\ op.out = PyObj("NotImplementSentinel", op.at + 1)
    /\ op.err = NoConvError

----------------------------------------------------------------------------
\* Properties of the hooks of get_converter's converter

\* The structure hooks get_converter registers for the classes and the union
DefaultStructureHooks ==
    {"res_datetimes", "uuid_from_hex", "make_uuid_str",
     "sentinel_res_hook_factory", "sentinel_optional_res_hook_factory",
     "dedupe_key_res_hook_factory", "optional_string_structure_hook",
     "HTTPStatus(int(v))", "json_mapstring_res"}

\* The runtime classes a structure hook returns a value for
AcceptedClasses(hook, t) ==
    IF hook \in {"uuid_from_hex", "make_uuid_str"} THEN {"str", "UUID"}
    ELSE IF hook = "res_datetimes" THEN {"str", "datetime"}
    ELSE IF hook = "sentinel_res_hook_factory" THEN {"str", t.arg}
    ELSE IF hook = "sentinel_optional_res_hook_factory"
    THEN {"str", "NoneType", t.arg}
    ELSE IF hook = "dedupe_key_res_hook_factory" THEN {"str", t.arg}
    ELSE IF hook = "optional_string_structure_hook" THEN {"str", "NoneType"}
    ELSE IF hook = "HTTPStatus(int(v))"
    THEN {"str", "int", "float", "HTTPStatus", "UUID"}
    ELSE IF hook = "json_mapstring_res" THEN {"str", "dict"}
    ELSE {}

\* C21: every structure hook of get_converter's converter, given a value of
\* a runtime class it does not accept, raises the error of raise_type_error,
\* which names the value, its runtime class and the target type; none
\* returns a value.
C21_MismatchRaises ==
    (/\ op.name = "structure" /\ op.hook \in DefaultStructureHooks
     /\ op.arg.cls \notin AcceptedClasses(op.hook, op.target))
    => op.err = raise_type_error(op.arg, op.target.arg)

\* C22: structuring into uuid.UUID or UUID_Str a value that is neither a
\* string nor a uuid.UUID raises the error that names the value and its
\* runtime class; a uuid.UUID and the canonical text of one give the target
\* object of the same digits.
C22_UuidMismatchRaises ==
    (op.name = "structure" /\ op.target \in {Class("UUID"), Class("UUID_Str")})
    => /\ op.arg.cls \notin {"str", "UUID"}
            => /\ op.err.type = "TypeError"
               /\ op.err.value = op.arg
               /\ op.err.rtype = op.arg.cls
               /\ op.err.target = op.target.arg
       /\ (op.arg = PyUUID(UuidHex) \/ op.arg = PyStr(UuidText))
            => /\ op.err = NoConvError
               /\ op.out = [cls |-> op.target.arg, s |-> UuidHex, id |-> 0]

\* The integer 123 was structured into uuid.UUID, and into UUID_Str by a
\* second behaviour: the error names it.
C22_Witness ==
    /\ op.name = "structure" /\ op.target = Class("UUID")
    /\ op.arg = PyInt
    /\ op.err = raise_type_error(PyInt, "UUID")

\* The hook table the conversion was called on: structure, unstructure of
\* a value and serialize_attributes are called on get_converter's converter,
\* unstructure of an instance on the converter its call recorded.
TableBefore == IF dumped.called THEN dumped.regs ELSE get_converter

\* C23: structure, unstructure and serialize_attributes leave the hook
\* table as the registrations made it: after a conversion, successful or
\* failing, the table is the one the conversion was called on and every
\* type resolves to the hook it resolved to then.
C23_HookTableReadOnly ==
    (Converted \/ lookup # NoLookup)
    => /\ registry = TableBefore
       /\ \A l \in lookup : l.hook = dispatch(TableBefore, l.dir, l.target)

\* After a structure that raised, uuid.UUID resolved to uuid_from_hex.
C23_Witness ==
    /\ op.name = "structure" /\ op.err # NoConvError
    /\ [dir |-> "res", target |-> Class("UUID"),
        hook |-> "uuid_from_hex"] \in lookup

\* The fields the claim keeps: those not flagged omit
KeptFields(instance) == SelectSeq(instance.fields, LAMBDA f : ~f.omit)

\* C27: after register_attrs_hooks(conv, Foo), unstructuring an instance of
\* Foo none of whose fields is flagged omit_if_default returns the dict of
\* the fields not flagged omit, in order, each value unstructured by conv.
C27_OmitFlaggedFields ==
    (/\ dumped.called
     /\ \A i \in 1..Len(dumped.instance.fields) :
           ~dumped.instance.fields[i].omit_if_default)
    => /\ dumped.err = NoConvError
       /\ dumped.out =
             [i \in 1..Len(KeptFields(dumped.instance)) |->
                <<KeptFields(dumped.instance)[i].name,
                  Converter_unstructure(registry,
                                        KeptFields(dumped.instance)[i].val).out>>]

\* C28: on get_converter's converter, unstructuring an exception made with
\* a message gives the text Class('message'), and unstructuring an exception
\* class gives its name, the hook last registered for the classes being the
\* one called.
C28_ExceptionsDestructured ==
    op.name = "unstructure_value"
    => /\ (op.arg.cls \in ExceptionClasses)
            => /\ op.err = NoConvError
               /\ op.hook = "des_exception_instance"
               /\ op.out = PyStr(ClassName(op.arg.cls) \o <<"(", "'">>
                                 \o op.arg.s \o <<"'", ")">>)
       /\ (op.arg.cls = "type" /\ op.arg.s[1] \in ExceptionClasses)
            => /\ op.err = NoConvError
               /\ op.hook = "unstructure_type_hook"
               /\ op.out = PyStr(ClassName(op.arg.s[1]))

\* The class ValueError was unstructured by the catch-all to its name.
C28_Witness ==
    /\ op.name = "unstructure_value"
    /\ op.arg = PyClass("ValueError")
    /\ op.hook = "unstructure_type_hook"
    /\ op.out = PyStr(<<"V", "a", "l", "u", "e", "E", "r", "r", "o", "r">>)
    /\ op.err = NoConvError

\* C29: on get_converter's converter, unstructuring a value that has no
\* hook of its own, or only the catch-all, raises nothing and returns the
\* value itself, except that a sentinel class gives its label, an exception
\* class its name and the string "null", in any case, None.
C29_CatchAll ==
    (/\ op.name = "unstructure_value"
     /\ op.hook \in {"not_found", "unstructure_type_hook"})
    => /\ op.err = NoConvError
       /\ op.out =
             IF issubclass(op.arg.cls, "type") /\ op.arg.s[1] \in SentinelClasses
             THEN PyStr(SentinelMeta_value(op.arg.s[1]))
             ELSE IF issubclass(op.arg.cls, "type")
                     /\ op.arg.s[1] \in ExceptionClasses
             THEN PyStr(ClassName(op.arg.s[1]))
             ELSE IF op.arg.cls = "str" /\ str_lower(op.arg.s) = NullString
             THEN PyNone
             ELSE op.arg

====
